---- MODULE Spec2Model ----
(***************************************************************************)
(* Verification model of the TomaMobileForexBot decision logic.            *)
(*                                                                         *)
(* The repository is a set of single-shot scripts.  Each run of a script   *)
(* (or call of one of its functions) is one operation: it reads an input   *)
(* (a JSON payload, a flag dictionary, a candle series summarised by the   *)
(* indicator comparisons the code makes on it) and returns a result.       *)
(* The state is the last call made and what it returned.                   *)
(*                                                                         *)
(* JSON values are records [t, v]: t is the JSON type, v the value as a    *)
(* string.  A dictionary is a function whose DOMAIN is the set of keys     *)
(* present, so a missing key is a key outside the DOMAIN, as in Python.    *)
(***************************************************************************)
EXTENDS Integers, Sequences, FiniteSets, TLC

VARIABLES call, ret

vars == <<call, ret>>

(* ---------------------------------------------------------------------- *)
(* JSON values and Python's reading of them                                *)
(* ---------------------------------------------------------------------- *)
JNull == [t |-> "null", v |-> ""]

JTrue == [t |-> "bool", v |-> "true"]

JFalse == [t |-> "bool", v |-> "false"]

JStr(s) == [t |-> "str", v |-> s]

JNum(s) == [t |-> "num", v |-> s]

\* a JSON array of numbers, each written as a string
JList(items) == [t |-> "list", v |-> "", items |-> items]

\* dict.get(k, default)
Get(d, k, default) == IF k \in DOMAIN d THEN d[k] ELSE default

\* Python truthiness of a JSON value (None, "", 0 and False are falsy)
Truthy(j) ==
  CASE j.t = "null" -> FALSE
    [] j.t = "bool" -> j.v = "true"
    [] j.t = "str"  -> j.v # ""
    [] j.t = "num"  -> j.v # "0"
    [] j.t = "list" -> j.items # <<>>

\* the integer a numeral of the model stands for
Numeral ==
  ("0" :> 0) @@ ("1" :> 1) @@ ("2" :> 2) @@ ("3" :> 3) @@ ("4" :> 4)
  @@ ("5" :> 5) @@ ("7" :> 7) @@ ("16" :> 16)

\* the exception int(x) raises on a JSON value, "" if it raises none:
\* int(None) is a TypeError, int("yes") and int("") are ValueErrors
IntError(j) ==
  CASE j.t \in {"null", "list"} -> "TypeError"
    [] j.t = "str" /\ j.v \notin DOMAIN Numeral -> "ValueError"
    [] OTHER -> ""

\* int(x) of a flag value as pick_direction uses it: True -> 1, False -> 0,
\* a number or a numeric string -> its value
\* (the default of tech.get(k, 0) is the number 0)
IntOfFlag(j) ==
  CASE j.t = "bool" -> (IF j.v = "true" THEN 1 ELSE 0)
    [] j.t \in {"num", "str"} /\ j.v \in DOMAIN Numeral -> Numeral[j.v]
    [] OTHER -> 0

\* the dictionaries over a set of keys K with values in V, any key may be absent
PartialMaps(K, V) == UNION {[D -> V] : D \in SUBSET K}

RECURSIVE SeqFilterKeys(_, _, _)
\* the labels of the <<key, label>> pairs whose key is truthy in d, in order;
\* the label "pattern:" is completed with d's pattern_type ('?' if absent)
SeqFilterKeys(pairs, d, i) ==
  IF i > Len(pairs) THEN <<>>
  ELSE (IF Truthy(Get(d, pairs[i][1], JNull))
          THEN (IF pairs[i][2] = "pattern:"
                  THEN <<"pattern:" \o Get(d, "pattern_type", JStr("?")).v>>
                  ELSE <<pairs[i][2]>>)
          ELSE <<>>)
       \o SeqFilterKeys(pairs, d, i + 1)

InSeq(x, s) == \E i \in 1..Len(s) : s[i] = x

(* ---------------------------------------------------------------------- *)
(* agent_policy.py                                                         *)
(* ---------------------------------------------------------------------- *)
REQUIRED_TOP ==
  <<"symbol", "timeframe", "utc_build", "price", "score16", "score6",
    "tech", "fund", "pre_action">>

RequiredKeys == {REQUIRED_TOP[i] : i \in 1..Len(REQUIRED_TOP)}

\* The composite score01 = (score16/16)*0.7 + (score6/6)*0.3 is kept exactly,
\* in units of 1/160: score01 * 160 = 7*score16 + 8*score6.
ScoreUnits == 160

TechWeightUnits == 7

FundWeightUnits == 8

\* the thresholds 0.70, 0.50, 0.30 in the same units
HighUnits == 112

MediumUnits == 80

LowUnits == 48

\* the 0.30 of the weak-signal downgrade
WeakUnits == 48

RawScoreUnits(score16, score6) ==
  TechWeightUnits * score16 + FundWeightUnits * score6

\* The pairs (score16, score6) whose exact composite is one of the thresholds
\* 0.30, 0.50, 0.70 while the IEEE-754 double that
\* (score16/16.0)*0.7 + (score6/6.0)*0.3 evaluates to is below the double of
\* that threshold: (-8/16.0)*0.7 + (13/6.0)*0.3 is 0.29999999999999993.
\* The table is complete for -16 <= score16 <= 32 and -16 <= score6 <= 24.
RoundsBelow ==
  {<<-8, 13>>, <<24, -15>>, <<24, -11>>, <<24, -7>>, <<32, -14>>}

\* score01 before clamping.  A double x is represented by the largest k with
\* double(k/160) <= x, which decides every comparison the code makes on it:
\* k is the exact 7*score16 + 8*score6 unless the rounding of the double
\* leaves x just below a threshold.
Score01Units(score16, score6) ==
  RawScoreUnits(score16, score6)
  - (IF <<score16, score6>> \in RoundsBelow THEN 1 ELSE 0)

clamp01(x) ==
  IF x < 0 THEN 0 ELSE IF x > ScoreUnits THEN ScoreUnits ELSE x

band_from_score01(s01) ==
  IF s01 >= HighUnits THEN "HIGH"
  ELSE IF s01 >= MediumUnits THEN "MEDIUM"
  ELSE IF s01 >= LowUnits THEN "LOW"
  ELSE "WEAK"

\* faulty variant of IsFalse: `not x`, which also takes a missing flag (None)
\* for a veto
IsFalse_falsy(j) == ~Truthy(j)

\* `x is False`
IsFalse(j) == j = JFalse

\* faulty variant of veto_checks: only the first triggered veto is reported
veto_checks_first_only(payload) ==
  LET fund == Get(payload, "fund", <<>>)
  IN  IF IsFalse(Get(fund, "no_red_news_1h", JNull)) THEN <<"red news < 1h">>
      ELSE IF IsFalse(Get(fund, "spread_ok", JNull)) THEN <<"spread too high">>
      ELSE IF IsFalse(Get(fund, "not_mid_candle", JNull))
        THEN <<"mid-candle window">>
      ELSE IF IsFalse(Get(payload, "ttl_ok", JTrue)) THEN <<"stale data">>
      ELSE IF Get(payload, "price_crosscheck", JNull) = JStr("mismatch")
        THEN <<"cross-source price mismatch">>
      ELSE <<>>

\* faulty variant of veto_checks: the spread of the context record is read,
\* a spread above 2 pips is a veto
veto_checks_reads_spread(payload) ==
  IF Get(payload, "spread_pips", JNull) = JNum("3.0")
    THEN <<"spread too high">> ELSE <<>>

veto_checks(payload) ==
  LET fund == Get(payload, "fund", <<>>)
      ttl_ok == Get(payload, "ttl_ok", JTrue)
  IN  (IF IsFalse(Get(fund, "no_red_news_1h", JNull))
         THEN <<"red news < 1h">> ELSE <<>>)
      \o (IF IsFalse(Get(fund, "spread_ok", JNull))
         THEN <<"spread too high">> ELSE <<>>)
      \o (IF IsFalse(Get(fund, "not_mid_candle", JNull))
         THEN <<"mid-candle window">> ELSE <<>>)
      \o (IF IsFalse(ttl_ok) THEN <<"stale data">> ELSE <<>>)
      \o (IF Get(payload, "price_crosscheck", JNull) = JStr("mismatch")
         THEN <<"cross-source price mismatch">> ELSE <<>>)

BullCount(tech) ==
  IntOfFlag(Get(tech, "ema9_gt_21", JFalse))
  + IntOfFlag(Get(tech, "macd_bull", JFalse))
  + IntOfFlag(Get(tech, "rsi_gt_60", JFalse))

BearCount(tech) ==
  IntOfFlag(Get(tech, "ema9_lt_21", JFalse))
  + IntOfFlag(Get(tech, "macd_bear", JFalse))
  + IntOfFlag(Get(tech, "rsi_lt_40", JFalse))

\* faulty variant of pick_direction: a tie goes to BUY
pick_direction_tie_buys(tech) ==
  IF BullCount(tech) >= BearCount(tech) THEN "BUY" ELSE "SELL"

\* variant of pick_direction that asks for three unopposed votes
pick_direction_min_votes(tech) ==
  IF BullCount(tech) >= 3 /\ BearCount(tech) = 0 THEN "BUY"
  ELSE IF BearCount(tech) >= 3 /\ BullCount(tech) = 0 THEN "SELL"
  ELSE "WAIT"

pick_direction(tech) ==
  IF BullCount(tech) > BearCount(tech) THEN "BUY"
  ELSE IF BearCount(tech) > BullCount(tech) THEN "SELL"
  ELSE "WAIT"

TechReasons ==
  << <<"ema9_gt_21", "EMA9>21">>, <<"ema9_lt_21", "EMA9<21">>,
     <<"ema20_gt_50", "EMA20>50">>, <<"ema20_lt_50", "EMA20<50">>,
     <<"rsi_gt_60", "RSI>60">>, <<"rsi_lt_40", "RSI<40">>,
     <<"rsi_div", "RSI divergence">>, <<"macd_bull", "MACD>signal">>,
     <<"macd_bear", "MACD<signal">>, <<"adx_gt_20", "ADX>20">>,
     <<"atr_zone", "ATR ok">>, <<"pattern", "pattern:">>,
     <<"mtf_confluence", "MTF confluence">>, <<"fibo_touch", "Fib area">>,
     <<"sr_break", "S/R break">>, <<"high_volume", "Volume up">>,
     <<"momentum_body", "Momentum candle">>, <<"above_200", "Above 200 EMA">> >>

FundReasons ==
  << <<"news_sentiment_ok", "News sentiment ok">>,
     <<"no_cb_conflict", "No CB conflict">>,
     <<"tg_agreement", "External signal agreement">> >>

\* faulty variant of explain_why: the fundamental hints come first
explain_why_fund_first(tech, fund) ==
  SeqFilterKeys(FundReasons, fund, 1) \o SeqFilterKeys(TechReasons, tech, 1)

explain_why(tech, fund) ==
  SeqFilterKeys(TechReasons, tech, 1) \o SeqFilterKeys(FundReasons, fund, 1)

RiskNotes(vetoes) ==
  (IF InSeq("red news < 1h", vetoes) THEN <<"calendar risk">> ELSE <<>>)
  \o (IF InSeq("spread too high", vetoes) THEN <<"spread">> ELSE <<>>)
  \o (IF InSeq("mid-candle window", vetoes) THEN <<"mid-candle">> ELSE <<>>)
  \o (IF InSeq("stale data", vetoes) THEN <<"stale">> ELSE <<>>)
  \o (IF InSeq("cross-source price mismatch", vetoes)
        THEN <<"price mismatch">> ELSE <<>>)

\* missing = [k for k in REQUIRED_TOP if k not in payload]
MissingFields(payload) ==
  SelectSeq(REQUIRED_TOP, LAMBDA k : k \notin DOMAIN payload)

\* raw_dir = payload.get("pre_action") or pick_direction(tech)
RawDir(payload) ==
  IF Truthy(Get(payload, "pre_action", JNull))
    THEN Get(payload, "pre_action", JNull)
    ELSE JStr(pick_direction(Get(payload, "tech", <<>>)))

\* faulty variant of VetoedAction: a single veto is not enough
VetoedAction_needs_two(vetoes, raw_dir) ==
  IF Len(vetoes) >= 2 THEN JStr("WAIT") ELSE raw_dir

\* final_action before the weak-score downgrade
VetoedAction(vetoes, raw_dir) ==
  IF vetoes # <<>> THEN JStr("WAIT") ELSE raw_dir

\* faulty variant of Downgrade: <= 0.25 instead of < 0.30
Downgrade_low_threshold(score01, action) ==
  IF score01 <= 40 THEN JStr("WAIT") ELSE action

\* if score01 < 0.30: final_action = "WAIT"
Downgrade(score01, action) ==
  IF score01 < WeakUnits THEN JStr("WAIT") ELSE action

\* the six keys pick_direction reads, in the order it reads them
DirKeySeq ==
  <<"ema9_gt_21", "macd_bull", "rsi_gt_60", "ema9_lt_21", "macd_bear",
    "rsi_lt_40">>

RECURSIVE FirstIntError(_, _)
\* the exception pick_direction raises on tech from its i-th key on: that of
\* the first int() that fails, "" if none fails
FirstIntError(tech, i) ==
  IF i > Len(DirKeySeq) THEN ""
  ELSE IF IntError(Get(tech, DirKeySeq[i], JNum("0"))) # ""
    THEN IntError(Get(tech, DirKeySeq[i], JNum("0")))
  ELSE FirstIntError(tech, i + 1)

\* the exception that ends main at
\* raw_dir = payload.get("pre_action") or pick_direction(tech), "" if none:
\* pick_direction is only called when pre_action is falsy
RawDirError(payload) ==
  IF Truthy(Get(payload, "pre_action", JNull)) THEN ""
  ELSE FirstIntError(Get(payload, "tech", <<>>), 1)

\* seq[:3]
FirstThree(seq) == SubSeq(seq, 1, IF Len(seq) < 3 THEN Len(seq) ELSE 3)

\* The Telegram message, one tuple per line: the line's name and the values
\* formatted into it.  The spread line is there for a number (a bool is an
\* int), the levels line for a non-empty support or resistance list, the
\* provenance line for a non-empty provenance.
build_message(p, final_action, conf_band, score16, score6, reasons, risk_notes) ==
  LET spread == Get(p, "spread_pips", JNull)
      sup == Get(p, "support", JList(<<>>))
      res == Get(p, "resistance", JList(<<>>))
      prov == Get(p, "provenance", JStr(""))
      lvl == (IF Truthy(sup) THEN <<"Support">> \o FirstThree(sup.items)
                ELSE <<>>)
             \o (IF Truthy(res) THEN <<"Resistance">> \o FirstThree(res.items)
                   ELSE <<>>)
  IN  << <<"symbol", p["symbol"].v, p["timeframe"].v>>,
         <<"time", Get(p, "utc_build", JStr("now")).v>>,
         <<"action", final_action.v, conf_band>>,
         <<"score", score16, score6>>,
         <<"reason">> \o (IF reasons # <<>> THEN reasons ELSE <<"mixed">>),
         <<"risk">> \o (IF risk_notes # <<>> THEN risk_notes ELSE <<"normal">>) >>
      \o (IF spread.t \in {"num", "bool"} THEN << <<"spread", spread.v>> >>
            ELSE <<>>)
      \o (IF lvl # <<>> THEN << <<"levels">> \o lvl >> ELSE <<>>)
      \o (IF Truthy(prov) THEN << <<"provenance", prov.v>> >> ELSE <<>>)

\* what main() prints for a payload that parsed as JSON: an error object, or
\* nothing when pick_direction raises (the traceback goes to stderr), or the
\* decision followed by the message
agent_policy_out(payload) ==
  IF MissingFields(payload) # <<>>
    THEN [kind |-> "error", error |-> "missing_fields",
          fields |-> MissingFields(payload)]
  ELSE IF RawDirError(payload) # ""
    THEN [kind |-> "crash", error |-> RawDirError(payload), fields |-> <<>>]
    ELSE LET score16 == payload["score16"]
             score6 == payload["score6"]
             score01 == clamp01(Score01Units(score16, score6))
             tech == Get(payload, "tech", <<>>)
             fund == Get(payload, "fund", <<>>)
             vetoes == veto_checks(payload)
             final_action ==
               Downgrade(score01, VetoedAction(vetoes, RawDir(payload)))
         IN  [kind |-> "decision",
              symbol |-> payload["symbol"],
              timeframe |-> payload["timeframe"],
              utc_build |-> Get(payload, "utc_build", JNull),
              price |-> Get(payload, "price", JNull),
              final_action |-> final_action,
              confidence_band |-> band_from_score01(score01),
              score16 |-> score16,
              score6 |-> score6,
              score01 |-> score01,
              reasons |-> explain_why(tech, fund),
              vetoes |-> vetoes,
              risk_notes |-> RiskNotes(vetoes),
              valid_until |-> Get(payload, "valid_until", JNull),
              message |->
                build_message(payload, final_action,
                              band_from_score01(score01), score16, score6,
                              explain_why(tech, fund), RiskNotes(vetoes))]

(* ---------------------------------------------------------------------- *)
(* The vote rule of the exporters                                          *)
(* ---------------------------------------------------------------------- *)
\* the votes needed for a direction: the literal 3 of every vote rule
MIN_VOTES == 3

\* sum(1 for k in keys if flags[k])
CountTrue(keys, flags) == Cardinality({k \in keys : flags[k]})

\* faulty variant of StrictVote: the majority wins
StrictVote_majority(bull, bear) ==
  IF bull >= MIN_VOTES /\ bull > bear THEN "BUY"
  ELSE IF bear >= MIN_VOTES /\ bear > bull THEN "SELL"
  ELSE "WAIT"

\* if bull >= 3 and bear == 0: BUY; if bear >= 3 and bull == 0: SELL; else WAIT
StrictVote(bull, bear) ==
  IF bull >= MIN_VOTES /\ bear = 0 THEN "BUY"
  ELSE IF bear >= MIN_VOTES /\ bull = 0 THEN "SELL"
  ELSE "WAIT"

\* export_json_td.py
TdBullKeys ==
  {"ema9_gt_ema21", "ema20_gt_ema50", "rsi_gt_60", "macd_cross_up",
   "above_200_ema", "momentum_big_body_up", "sr_break_up", "bullish_engulfing"}

TdBearKeys ==
  {"rsi_lt_40", "macd_cross_down", "momentum_big_body_down", "sr_break_down",
   "bearish_engulfing"}

choose_action(flags) ==
  StrictVote(CountTrue(TdBullKeys, flags), CountTrue(TdBearKeys, flags))

\* export_json_unified.py
UnifiedBullKeys ==
  {"ema9_gt_ema21", "ema20_gt_ema50", "rsi_gt_60", "macd_cross_up",
   "momentum_big_body_up", "sr_break_up", "above_200_ema", "high_volume",
   "mtf_confluence_up", "adx_gt_20"}

UnifiedBearKeys ==
  {"rsi_lt_40", "macd_cross_down", "momentum_big_body_down", "sr_break_down",
   "mtf_confluence_down"}

pre_action_from_flags(flags) ==
  StrictVote(CountTrue(UnifiedBullKeys, flags), CountTrue(UnifiedBearKeys, flags))

\* export_json.py: mtf_confluence adds `1 and False`, that is 0, to bulls
TentativeBullKeys ==
  {"ema9_gt_ema21", "ema20_gt_ema50", "rsi_gt_60", "macd_cross_up",
   "above_200_ema"}

TentativeBearKeys == {"rsi_lt_40", "macd_cross_down", "candle_bear_engulf"}

TentativeKeys ==
  TentativeBullKeys \cup TentativeBearKeys \cup {"mtf_confluence"}

TentativeBulls(tech) ==
  CountTrue(TentativeBullKeys, tech)
  + (IF tech["mtf_confluence"] THEN 0 ELSE 0)

TentativeBears(tech) == CountTrue(TentativeBearKeys, tech)

tentative_action(tech) ==
  IF TentativeBulls(tech) >= MIN_VOTES /\ TentativeBears(tech) = 0 THEN "BUY"
  ELSE IF TentativeBears(tech) >= MIN_VOTES /\ TentativeBulls(tech) = 0
    THEN "SELL"
  ELSE "WAIT"

\* export_stocks_av.py: flags.get(k), a majority rule
StocksBullKeys ==
  {"ema9_gt_ema21", "ema20_gt_ema50", "rsi_gt_60", "macd_cross_up",
   "momentum_big_body_up", "above_200_ema", "high_volume"}

StocksBearKeys ==
  {"rsi_lt_40", "macd_cross_down", "momentum_big_body_down", "sr_break_down"}

StocksBull(flags) ==
  Cardinality({k \in StocksBullKeys : Get(flags, k, FALSE)})

StocksBear(flags) ==
  Cardinality({k \in StocksBearKeys : Get(flags, k, FALSE)})

\* variant of vote_action with the strict rule of the other exporters
vote_action_strict(flags) ==
  StrictVote(StocksBull(flags), StocksBear(flags))

vote_action(flags) ==
  IF StocksBull(flags) >= MIN_VOTES /\ StocksBull(flags) > StocksBear(flags)
    THEN "BUY"
  ELSE IF StocksBear(flags) >= MIN_VOTES /\ StocksBear(flags) > StocksBull(flags)
    THEN "SELL"
  ELSE "WAIT"

(* ---------------------------------------------------------------------- *)
(* core.py: analyze_once                                                   *)
(*                                                                         *)
(* The candle series enters through the comparisons the code makes on the  *)
(* indicators of its last bars (an observation, obs):                      *)
(*   rsi   which of RSI < 40, 40 <= RSI <= 60, RSI > 60 holds              *)
(*   macd  MACD crossed its signal line up, down, or not at all; the       *)
(*         histogram is macd - signal, so it flips exactly when they cross *)
(*   engulf, big   both the bullish patterns need close > open and the     *)
(*         bearish ones close < open, so they never point opposite ways    *)
(*   htf   last_h > e20 > e50, last_h < e20 < e50, or neither              *)
(* ---------------------------------------------------------------------- *)
Flags16Keys ==
  <<"EMA9>EMA21", "EMA20>EMA50", "RSI>60", "RSI<40", "RSI bullish divergence",
    "RSI bearish divergence", "MACD cross up", "MACD cross down", "ADX>20",
    "ATR ok", "Bullish engulfing", "Bearish engulfing", "High volume vs MA",
    "Above 200 EMA", "HTF confluence up", "S/R break (any)">>

ExtraKeys ==
  <<"Momentum big body up", "Momentum big body down", "HTF confluence down",
    "MACD hist flip up", "MACD hist flip down", "S/R break up",
    "S/R break down">>

SeqToSet(s) == {s[i] : i \in 1..Len(s)}

Flags16(obs) ==
  [k \in SeqToSet(Flags16Keys) |->
     CASE k = "EMA9>EMA21" -> obs.ema9_gt_21
       [] k = "EMA20>EMA50" -> obs.ema20_gt_50
       [] k = "RSI>60" -> obs.rsi = "gt60"
       [] k = "RSI<40" -> obs.rsi = "lt40"
       [] k = "RSI bullish divergence" -> obs.rsi_bull_div
       [] k = "RSI bearish divergence" -> obs.rsi_bear_div
       [] k = "MACD cross up" -> obs.macd = "cross_up"
       [] k = "MACD cross down" -> obs.macd = "cross_down"
       [] k = "ADX>20" -> obs.adx_gt_20
       [] k = "ATR ok" -> obs.atr_pos
       [] k = "Bullish engulfing" -> obs.engulf = "bull"
       [] k = "Bearish engulfing" -> obs.engulf = "bear"
       [] k = "High volume vs MA" -> obs.high_vol
       [] k = "Above 200 EMA" -> obs.above_200
       [] k = "HTF confluence up" -> obs.htf = "bull"
       [] k = "S/R break (any)" -> obs.sr_up \/ obs.sr_dn]

ExtraFlags(obs) ==
  [k \in SeqToSet(ExtraKeys) |->
     CASE k = "Momentum big body up" -> obs.big = "up"
       [] k = "Momentum big body down" -> obs.big = "down"
       [] k = "HTF confluence down" -> obs.htf = "bear"
       [] k = "MACD hist flip up" -> obs.macd = "cross_up"
       [] k = "MACD hist flip down" -> obs.macd = "cross_down"
       [] k = "S/R break up" -> obs.sr_up
       [] k = "S/R break down" -> obs.sr_dn]

\* the stubs: 0/6 until APIs are wired
Flags6Keys ==
  {"No red news next 1h", "News sentiment supports signal", "No CB conflict",
   "Spread acceptable", "External signal agreement", "Not mid-candle"}

\* faulty variant of Flags6: the spread stub defaults to true
Flags6_spread_true == [k \in Flags6Keys |-> k = "Spread acceptable"]

Flags6 == [k \in Flags6Keys |-> FALSE]

\* the direction-agnostic S/R flag is not a bullish vote
bull_keys_directional ==
  {"EMA9>EMA21", "EMA20>EMA50", "RSI>60", "RSI bullish divergence",
   "MACD cross up", "ADX>20", "Bullish engulfing", "High volume vs MA",
   "Above 200 EMA", "HTF confluence up"}

bull_keys ==
  {"EMA9>EMA21", "EMA20>EMA50", "RSI>60", "RSI bullish divergence",
   "MACD cross up", "ADX>20", "Bullish engulfing", "High volume vs MA",
   "Above 200 EMA", "HTF confluence up", "S/R break (any)"}

bear_keys ==
  {"RSI<40", "RSI bearish divergence", "MACD cross down", "Bearish engulfing"}

ExtraBearKeys ==
  {"Momentum big body down", "HTF confluence down", "MACD hist flip down",
   "S/R break down"}

ExtraBullKeys ==
  {"Momentum big body up", "MACD hist flip up", "S/R break up"}

bear_votes(flags16, extra_flags) ==
  Cardinality({k \in bear_keys : Get(flags16, k, FALSE)})
  + CountTrue(ExtraBearKeys, extra_flags)

bull_votes(flags16, extra_flags) ==
  Cardinality({k \in bull_keys : Get(flags16, k, FALSE)})
  + CountTrue(ExtraBullKeys, extra_flags)

\* faulty variant of CoreDecision: more than three votes are needed
CoreDecision_late(bull, bear) ==
  IF bull > 0 /\ bear > 0 THEN "WAIT"
  ELSE IF bull > MIN_VOTES /\ bear = 0 THEN "BUY"
  ELSE IF bear > MIN_VOTES /\ bull = 0 THEN "SELL"
  ELSE "WAIT"

CoreDecision(bull, bear) ==
  IF bull > 0 /\ bear > 0 THEN "WAIT"
  ELSE IF bull >= MIN_VOTES /\ bear = 0 THEN "BUY"
  ELSE IF bear >= MIN_VOTES /\ bull = 0 THEN "SELL"
  ELSE "WAIT"

RECURSIVE TrueKeys(_, _, _)
\* [k for k, v in flags.items() if v], in the order of the dict
TrueKeys(keys, flags, i) ==
  IF i > Len(keys) THEN <<>>
  ELSE (IF flags[keys[i]] THEN <<keys[i]>> ELSE <<>>)
       \o TrueKeys(keys, flags, i + 1)

analyze_once(candles, obs) ==
  IF candles = "empty"
    THEN [kind |-> "analysis", score16 |-> 0, flags16 |-> <<>>, score6 |-> 0,
          flags6 |-> <<>>, action |-> "WAIT", why |-> <<"No candles">>]
    ELSE LET flags16 == Flags16(obs)
             extra_flags == ExtraFlags(obs)
         IN  [kind |-> "analysis",
              score16 |-> CountTrue(SeqToSet(Flags16Keys), flags16),
              flags16 |-> flags16,
              score6 |-> CountTrue(Flags6Keys, Flags6),
              flags6 |-> Flags6,
              action |-> CoreDecision(bull_votes(flags16, extra_flags),
                                      bear_votes(flags16, extra_flags)),
              why |-> TrueKeys(Flags16Keys, flags16, 1)
                      \o TrueKeys(ExtraKeys, extra_flags, 1)]

\* the observations a candle series can give
Observations ==
  {o \in [ema9_gt_21 : BOOLEAN, ema20_gt_50 : BOOLEAN,
          rsi : {"lt40", "mid", "gt60"},
          rsi_bull_div : BOOLEAN, rsi_bear_div : BOOLEAN,
          macd : {"cross_up", "cross_down", "none"},
          adx_gt_20 : BOOLEAN, atr_pos : BOOLEAN,
          engulf : {"bull", "bear", "none"}, big : {"up", "down", "none"},
          high_vol : BOOLEAN, above_200 : BOOLEAN,
          htf : {"bull", "bear", "none"},
          sr_up : BOOLEAN, sr_dn : BOOLEAN] :
     /\ ~(o.engulf = "bull" /\ o.big = "down")
     /\ ~(o.engulf = "bear" /\ o.big = "up")}

NoObservation ==
  [ema9_gt_21 |-> FALSE, ema20_gt_50 |-> FALSE, rsi |-> "mid",
   rsi_bull_div |-> FALSE, rsi_bear_div |-> FALSE, macd |-> "none",
   adx_gt_20 |-> FALSE, atr_pos |-> FALSE, engulf |-> "none", big |-> "none",
   high_vol |-> FALSE, above_200 |-> FALSE, htf |-> "none",
   sr_up |-> FALSE, sr_dn |-> FALSE]

(* ---------------------------------------------------------------------- *)
(* The exporters: export_json_av.py, export_json_td.py,                    *)
(* export_json_unified.py, export_stocks_av.py                             *)
(*                                                                         *)
(* A run has an environment env (is the API key set, what the candle fetch *)
(* gave), an observation obs of the candles as in core.py, and the spread  *)
(* argument in tenths of a pip.  Its result is what it wrote to stdout,    *)
(* its exit status and whether it died with a traceback.                   *)
(* ---------------------------------------------------------------------- *)
\* the value of an exporter flag on the candles observed
ObsFlag(obs, k) ==
  CASE k = "ema9_gt_ema21" -> obs.ema9_gt_21
    [] k = "ema20_gt_ema50" -> obs.ema20_gt_50
    [] k = "rsi_gt_60" -> obs.rsi = "gt60"
    [] k = "rsi_lt_40" -> obs.rsi = "lt40"
    [] k = "macd_cross_up" -> obs.macd = "cross_up"
    [] k = "macd_cross_down" -> obs.macd = "cross_down"
    [] k = "adx_gt_20" -> obs.adx_gt_20
    [] k = "above_200_ema" -> obs.above_200
    [] k = "momentum_big_body_up" -> obs.big = "up"
    [] k = "momentum_big_body_down" -> obs.big = "down"
    [] k = "sr_break_up" -> obs.sr_up
    [] k = "sr_break_down" -> obs.sr_dn
    [] k = "bullish_engulfing" -> obs.engulf = "bull"
    [] k = "bearish_engulfing" -> obs.engulf = "bear"
    [] k = "high_volume" -> obs.high_vol
    [] OTHER -> FALSE

\* the flags over keys: those in computed from the candles, the others the
\* literal False of the placeholder
FlagsFrom(keys, computed, obs) ==
  [k \in keys |-> IF k \in computed THEN ObsFlag(obs, k) ELSE FALSE]

\* sum(1 for v in d.values() if v)
CountValues(d) == Cardinality({k \in DOMAIN d : d[k]})

\* the JSON every exporter prints when it could not build a payload
Fallback(note, commentary) ==
  [action |-> "WAIT", score16 |-> 0, score6 |-> 0, why_short |-> <<>>,
   risk_notes |-> <<note>>, conflicts |-> <<>>, confidence_1to5 |-> 1,
   telegram_commentary |-> commentary]

FetchFailed == "Exporter failed to fetch/compute; check API key or rate limits."

\* the result of one run of a script
Ran(stdout, exit) ==
  [kind |-> "export", stdout |-> stdout, exit |-> exit, traceback |-> FALSE,
   enriched |-> FALSE]

\* the payload of a successful export, common to the four exporters
Payload(timeframe, spread, tech, fund, pre_action, meta, extra) ==
  [symbol |-> "EURUSD", timeframe |-> timeframe, utc_build_time |-> "now",
   price |-> "1.1", spread_pips |-> spread, score16 |-> CountValues(tech),
   score6 |-> CountValues(fund), pre_action |-> pre_action,
   technical_flags |-> tech, technical_meta |-> meta,
   fundamental_flags |-> fund] @@ extra

\* ---- export_json_av.py
AvTechKeys ==
  {"ema9_gt_ema21", "ema20_gt_ema50", "rsi_gt_60", "rsi_lt_40",
   "macd_cross_up", "macd_cross_down", "adx_gt_20", "above_200_ema",
   "htf_confluence_up", "htf_confluence_down", "momentum_big_body_up",
   "momentum_big_body_down", "sr_break_up", "sr_break_down",
   "bearish_engulfing", "bullish_engulfing"}

AvComputed ==
  {"ema9_gt_ema21", "ema20_gt_ema50", "rsi_gt_60", "rsi_lt_40",
   "above_200_ema", "momentum_big_body_up", "momentum_big_body_down",
   "bearish_engulfing", "bullish_engulfing"}

compute_flags(obs) == FlagsFrom(AvTechKeys, AvComputed, obs)

compute_fund_flags ==
  [no_red_news_1h |-> FALSE, news_sentiment_ok |-> FALSE,
   no_cb_conflict |-> TRUE, spread_ok |-> TRUE, tg_agreement |-> TRUE,
   not_mid_candle |-> TRUE]

AvBullKeys ==
  {"ema9_gt_ema21", "ema20_gt_ema50", "rsi_gt_60", "above_200_ema",
   "momentum_big_body_up", "bullish_engulfing", "sr_break_up",
   "htf_confluence_up"}

AvBearKeys ==
  {"rsi_lt_40", "momentum_big_body_down", "bearish_engulfing",
   "sr_break_down", "htf_confluence_down", "macd_cross_down"}

\* the keys pre_action_from_flags does not read
AvUnreadKeys == AvTechKeys \ (AvBullKeys \cup AvBearKeys)

AvBullish(tech) == CountTrue(AvBullKeys, tech)

\* the six bearish flags, plus `not above_200_ema` and `not ema9_gt_ema21`
AvBearish(tech) ==
  CountTrue(AvBearKeys, tech)
  + (IF ~tech["above_200_ema"] THEN 1 ELSE 0)
  + (IF ~tech["ema9_gt_ema21"] THEN 1 ELSE 0)

av_pre_action_from_flags(tech) ==
  StrictVote(AvBullish(tech), AvBearish(tech))

\* the message of the exception build_payload raises, "" if it raises none
AvFailure(env) ==
  IF ~env.key THEN "Alpha Vantage API key not found."
  ELSE IF env.fetch = "bad_tf"
    THEN "Alpha Vantage FX_INTRADAY supports 1,5,15,30,60 minutes only"
  ELSE IF env.fetch = "http_error" THEN "HTTPError"
  ELSE IF env.fetch = "no_series" THEN "Alpha Vantage error/limit"
  ELSE IF env.fetch = "empty" THEN "No candles returned from Alpha Vantage."
  ELSE ""

av_build_payload(obs, spread) ==
  Payload("H1", spread, compute_flags(obs), compute_fund_flags,
          av_pre_action_from_flags(compute_flags(obs)), [bars |-> 100],
          [note |-> "from Alpha Vantage FX_INTRADAY"])

\* faulty variant of av_main: the exception is not caught
av_main_reraises(env, obs, spread) ==
  IF AvFailure(env) # ""
    THEN [kind |-> "export", stdout |-> <<>>, exit |-> 1, traceback |-> TRUE,
          enriched |-> FALSE]
  ELSE Ran(<<av_build_payload(obs, spread)>>, 0)

av_main(env, obs, spread) ==
  IF AvFailure(env) # ""
    THEN Ran(<<Fallback("Exporter error: " \o AvFailure(env), FetchFailed)>>, 1)
    ELSE Ran(<<av_build_payload(obs, spread)>>, 0)

\* ---- export_json_td.py
TdComputed ==
  {"ema9_gt_ema21", "ema20_gt_ema50", "rsi_gt_60", "rsi_lt_40",
   "macd_cross_up", "macd_cross_down", "above_200_ema",
   "momentum_big_body_up", "momentum_big_body_down", "sr_break_up",
   "sr_break_down", "bearish_engulfing", "bullish_engulfing"}

\* the 16 keys are those of export_json_av.py
td_build_flags(obs) == FlagsFrom(AvTechKeys, TdComputed, obs)

\* the 2.0 pips of spread_ok, in tenths of a pip
SpreadLimitTenths == 20

\* abs(spread_pips)
Abs(x) == IF x < 0 THEN 0 - x ELSE x

build_fundamentals(spread) ==
  [no_red_news_1h |-> FALSE, news_sentiment_ok |-> FALSE,
   no_cb_conflict |-> FALSE, spread_ok |-> (spread <= SpreadLimitTenths),
   tg_agreement |-> FALSE, not_mid_candle |-> TRUE]

\* the message of the exception build_payload raises, "" if it raises none
TdFailure(env) ==
  IF env.fetch = "http_error" THEN "HTTPError"
  ELSE IF env.fetch = "empty" THEN "TwelveData empty"
  ELSE IF env.fetch = "no_rows" THEN "No OHLCV rows after coercion."
  ELSE IF env.fetch = "one_row"
    THEN "single positional indexer is out-of-bounds"
  ELSE ""

td_build_payload(obs, spread) ==
  Payload("H1", Abs(spread), td_build_flags(obs),
          build_fundamentals(Abs(spread)), choose_action(td_build_flags(obs)),
          <<>>, <<>>)

\* the module-level key check, then main
td_main(env, obs, spread) ==
  IF ~env.key
    THEN Ran(<<Fallback("Missing TWELVE_DATA_API_KEY", "Missing API key.")>>, 1)
  ELSE IF TdFailure(env) # ""
    THEN Ran(<<Fallback("Exporter error: " \o TdFailure(env), FetchFailed)>>, 1)
    ELSE Ran(<<td_build_payload(obs, spread)>>, 0)

\* ---- export_json_unified.py
UnifiedTechKeys ==
  {"ema9_gt_ema21", "ema20_gt_ema50", "rsi_gt_60", "rsi_lt_40",
   "macd_cross_up", "macd_cross_down", "momentum_big_body_up",
   "momentum_big_body_down", "sr_break_up", "sr_break_down", "above_200_ema",
   "high_volume", "fibo_touch", "mtf_confluence_up", "mtf_confluence_down",
   "adx_gt_20"}

UnifiedComputed ==
  {"ema9_gt_ema21", "ema20_gt_ema50", "rsi_gt_60", "rsi_lt_40",
   "macd_cross_up", "macd_cross_down", "momentum_big_body_up",
   "momentum_big_body_down", "above_200_ema", "high_volume", "adx_gt_20"}

build_flags(obs) == FlagsFrom(UnifiedTechKeys, UnifiedComputed, obs)

fundamentals_stub ==
  [no_red_news_1h |-> FALSE, news_sentiment_ok |-> FALSE,
   no_cb_conflict |-> FALSE, spread_ok |-> TRUE, tg_agreement |-> FALSE,
   not_mid_candle |-> TRUE]

\* the message of the exception fetch_fx_eodhd or fetch_stock_av raises, ""
\* if it raises none
UnifiedFailure(env) ==
  IF env.fetch = "no_template" THEN "EODHD_URL_TEMPLATE missing or invalid"
  ELSE IF env.fetch = "bad_tf" THEN "AlphaVantage supports tf in {1,5,15,30,60}"
  ELSE IF ~env.key /\ env.route = "stock" THEN "ALPHA_VANTAGE_API_KEY missing"
  ELSE IF env.fetch = "http_error" THEN "HTTPError"
  ELSE IF env.fetch = "api_error" THEN "EODHD error / AlphaVantage error"
  ELSE IF env.fetch = "empty" THEN "EODHD empty list"
  ELSE ""

build_payload(env, obs, spread) ==
  IF UnifiedFailure(env) # ""
    THEN Fallback("Exporter error: " \o UnifiedFailure(env), FetchFailed)
    ELSE Payload("H1", spread, build_flags(obs), fundamentals_stub,
                 pre_action_from_flags(build_flags(obs)),
                 [src |-> "EODHD/AV"], [telegram_commentary |-> "WAIT bias"])

\* the script: print(json.dumps(build_payload(...)))
unified_main(env, obs, spread) == Ran(<<build_payload(env, obs, spread)>>, 0)

\* ---- export_stocks_av.py
StocksTechKeys ==
  {"ema9_gt_ema21", "ema20_gt_ema50", "rsi_gt_60", "rsi_lt_40",
   "above_200_ema", "momentum_big_body_up", "momentum_big_body_down",
   "high_volume", "sr_break_up", "sr_break_down", "mtf_confluence_up",
   "mtf_confluence_down", "fibo_touch", "macd_cross_up", "macd_cross_down"}

StocksComputed ==
  {"ema9_gt_ema21", "ema20_gt_ema50", "rsi_gt_60", "rsi_lt_40",
   "above_200_ema", "momentum_big_body_up", "momentum_big_body_down",
   "high_volume", "macd_cross_up", "macd_cross_down"}

make_flags(obs) == FlagsFrom(StocksTechKeys, StocksComputed, obs)

\* the fundamentals literal of main
StocksFundamentals ==
  [no_red_news_1h |-> TRUE, news_sentiment_ok |-> TRUE,
   no_cb_conflict |-> TRUE, spread_ok |-> TRUE, tg_agreement |-> FALSE,
   not_mid_candle |-> TRUE]

stocks_main(env, obs, spread) ==
  IF ~env.key
    THEN Ran(<<Fallback("ALPHA_VANTAGE_API_KEY missing",
                        "Exporter failed: missing API key.")>>, 0)
  ELSE IF env.fetch # "ok"
    THEN Ran(<<Fallback("Alpha Vantage error: " \o env.fetch,
                        "Exporter failed; check API key or rate limits.")>>, 0)
    ELSE Ran(<<Payload("M5", spread, make_flags(obs), StocksFundamentals,
                       vote_action(make_flags(obs)), [src |-> "AV"],
                       [telegram_commentary |-> "bias"])>>, 0)

\* ---- news_sentiment.py and enrich_json.py
\* The average compound score of the headlines is kept in hundredths; the
\* label is neutral strictly between -0.05 and 0.05.
NeutralBand == 5

_label_from_compound(c) ==
  IF c >= NeutralBand THEN "positive"
  ELSE IF c <= 0 - NeutralBand THEN "negative"
  ELSE "neutral"

\* without NEWS_API_KEY, or when the request fails, there are no headlines
\* and the average is 0.0
run(news) ==
  LET fetched == news.key /\ news.fetch = "ok"
      avg == IF fetched THEN news.avg ELSE 0
  IN  [news |-> [provider |-> IF fetched THEN "newsapi" ELSE "none",
                 avg_compound |-> avg, label |-> _label_from_compound(avg),
                 note |-> IF news.key /\ news.fetch # "ok"
                            THEN "newsapi_error" ELSE ""],
       fundamental_flags |->
         [news_sentiment_ok |-> (_label_from_compound(avg) # "negative")]]

\* the keys whose values are dictionaries in the documents merged
DictKeys ==
  {"technical_flags", "fundamental_flags", "technical_meta", "news"}

\* deep_merge on two dictionaries without dictionaries inside: b's value
\* wins, a's keys stay
MergeFlat(a, b) ==
  [k \in (DOMAIN a) \cup (DOMAIN b) |-> IF k \in DOMAIN b THEN b[k] ELSE a[k]]

\* a key of both is merged when both values are dictionaries, else b's
\* value replaces a's
deep_merge(a, b) ==
  [k \in (DOMAIN a) \cup (DOMAIN b) |->
     IF k \in (DOMAIN a) \cap (DOMAIN b)
       THEN (IF k \in DictKeys THEN MergeFlat(a[k], b[k]) ELSE b[k])
     ELSE IF k \in DOMAIN b THEN b[k]
     ELSE a[k]]

\* ---- the runs of the exporters
Rsi == {"lt40", "mid", "gt60"}

Cross == {"cross_up", "cross_down", "none"}

\* the last candle: its body (big up, big down, neither) and whether it
\* engulfs the one before; a bullish pattern needs close > open and a
\* bearish one close < open
Candle ==
  {c \in {"up", "down", "none"} \X {"bull", "bear", "none"} :
     /\ ~(c[1] = "down" /\ c[2] = "bull")
     /\ ~(c[1] = "up" /\ c[2] = "bear")}

\* the close is above the highest high or below the lowest low before it,
\* never both
Break == {<<FALSE, FALSE>>, <<TRUE, FALSE>>, <<FALSE, TRUE>>}

AvObservations ==
  {[NoObservation EXCEPT !.ema9_gt_21 = t[1], !.ema20_gt_50 = t[2],
                         !.rsi = t[3], !.above_200 = t[4], !.big = t[5][1],
                         !.engulf = t[5][2]] :
     t \in BOOLEAN \X BOOLEAN \X Rsi \X BOOLEAN \X Candle}

TdObservations ==
  {[o EXCEPT !.macd = t[1], !.sr_up = t[2][1], !.sr_dn = t[2][2]] :
     o \in AvObservations, t \in Cross \X Break}

UnifiedObservations ==
  {[NoObservation EXCEPT !.ema9_gt_21 = t[1], !.ema20_gt_50 = t[2],
                         !.rsi = t[3], !.above_200 = t[4], !.big = t[5],
                         !.macd = t[6], !.high_vol = t[7],
                         !.adx_gt_20 = t[8]] :
     t \in BOOLEAN \X BOOLEAN \X Rsi \X BOOLEAN \X {"up", "down", "none"}
            \X Cross \X BOOLEAN \X BOOLEAN}

StocksObservations == {o \in UnifiedObservations : ~o.adx_gt_20}

\* the --spread argument, in tenths of a pip
SpreadSamples == {0 - 25, 12, 20, 25}

Env(key, route, fetch) == [key |-> key, route |-> route, fetch |-> fetch]

\* the environments in which the exporter fn cannot build a payload
FailingEnvs(fn) ==
  CASE fn = "export_json_av" ->
         {Env(FALSE, "fx", "ok")}
         \cup {Env(TRUE, "fx", f) :
                 f \in {"bad_tf", "http_error", "no_series", "empty"}}
    [] fn = "export_json_td" ->
         {Env(FALSE, "fx", "ok")}
         \cup {Env(TRUE, "fx", f) :
                 f \in {"http_error", "empty", "no_rows", "one_row"}}
    [] fn = "export_json_unified" ->
         {Env(FALSE, "stock", "ok"), Env(TRUE, "stock", "bad_tf")}
         \cup {Env(k, "fx", "no_template") : k \in BOOLEAN}
         \cup {Env(TRUE, r, f) : r \in {"fx", "stock"},
                                 f \in {"http_error", "api_error", "empty"}}
    [] fn = "export_stocks_av" ->
         {Env(FALSE, "stock", "ok"), Env(TRUE, "stock", "RuntimeError")}

ExportCall(fn, env, obs, spread) ==
  [fn |-> fn, env |-> env, obs |-> obs, spread |-> spread]

\* what news_sentiment.run can meet: no key, a failed request, headlines
\* with an average compound score
CompoundSamples == {0 - 60, 0 - 5, 0 - 4, 0, 4, 5, 60}

NewsOutcomes ==
  {[key |-> FALSE, fetch |-> "none", avg |-> 0],
   [key |-> TRUE, fetch |-> "error", avg |-> 0]}
  \cup {[key |-> TRUE, fetch |-> "ok", avg |-> a] : a \in CompoundSamples}

(* ---------------------------------------------------------------------- *)
(* The payloads given to agent_policy.main                                 *)
(* ---------------------------------------------------------------------- *)
MaxScore16 == 16

MaxScore6 == 6

VetoKeys == {"no_red_news_1h", "spread_ok", "not_mid_candle"}

DirKeys ==
  {"ema9_gt_21", "macd_bull", "rsi_gt_60", "ema9_lt_21", "macd_bear", "rsi_lt_40"}

BoolVals == {JTrue, JFalse}

PreActionVals ==
  {JNull, JStr(""), JStr("BUY"), JStr("SELL"), JStr("WAIT"), JStr("HOLD"),
   JNum("7")}

\* the price/context part of a payload, which every payload of the model has
Context ==
  [symbol |-> JStr("EUR/USD"), timeframe |-> JStr("H1"),
   utc_build |-> JStr("2025-01-01T00:00:00+00:00"), price |-> JNum("1.1")]

MkPayload(score16, score6, tech, fund, pre_action, optional) ==
  Context @@ [score16 |-> score16, score6 |-> score6, tech |-> tech,
              fund |-> fund, pre_action |-> pre_action] @@ optional

\* ttl_ok and price_crosscheck are optional top-level keys
OptionalMaps ==
  {o \in PartialMaps({"ttl_ok", "price_crosscheck"},
                     BoolVals \cup {JStr("mismatch")}) :
     /\ "ttl_ok" \in DOMAIN o => o["ttl_ok"] \in BoolVals
     /\ "price_crosscheck" \in DOMAIN o => o["price_crosscheck"] = JStr("mismatch")}

\* score pairs for the payloads that vary the veto inputs: the composite takes
\* a value in every band and every band boundary (48, 80 and 112 units)
Score16Samples == {0, 8, 16}

Score6Samples == {0, 3, 6}

\* representative technical maps for the payloads that vary the veto inputs
TechSamples ==
  {<<>>,
   [ema9_gt_21 |-> JTrue, macd_bull |-> JTrue, rsi_gt_60 |-> JTrue],
   [ema9_lt_21 |-> JTrue, macd_bear |-> JTrue, rsi_gt_60 |-> JFalse]}

CleanFund ==
  [no_red_news_1h |-> JTrue, spread_ok |-> JTrue, not_mid_candle |-> JTrue]

\* how far below 0 and above 16 and 6 the scores of a payload may lie
ScoreSlack == 8

\* flag values that are not booleans
FlagOddVals == {JNum("0"), JNum("1"), JStr("yes"), JStr("1"), JNull}

FlagVals == BoolVals \cup FlagOddVals

\* the keys explain_why reads in tech, and a key it does not know
ReasonKeys == {TechReasons[i][1] : i \in 1..Len(TechReasons)}

UndeclaredKey == "bullish_engulfing"

SupportKeys == {FundReasons[i][1] : i \in 1..Len(FundReasons)}

\* a technical map over every declared key and the undeclared one, true
\* exactly on the keys in on
TechWith(on) ==
  [k \in ReasonKeys \cup {UndeclaredKey} |-> IF k \in on THEN JTrue ELSE JFalse]

PatternTypes == {<<>>, [pattern_type |-> JStr("doji")]}

\* the price/context fields of a payload
ContextKeys ==
  {"price", "spread_pips", "support", "resistance", "provenance",
   "valid_until", "symbol", "timeframe", "utc_build"}

\* two settings of the required context fields
OtherContext ==
  [symbol |-> JStr("XAU/USD"), timeframe |-> JStr("M5"),
   utc_build |-> JStr("2025-06-30T12:00:00+00:00"), price |-> JNum("2300.5")]

Levels == JList(<<"1.09", "1.08", "1.07", "1.06">>)

\* the optional context fields
ContextExtras ==
  {<<>>,
   [spread_pips |-> JNum("3.0")],
   [spread_pips |-> JStr("wide"), valid_until |-> JStr("2025-01-01T01:00")],
   [spread_pips |-> JNum("0.5"), support |-> Levels,
    resistance |-> JList(<<"1.12">>), provenance |-> JStr("TwelveData"),
    valid_until |-> JNull]}

Contexts == {c @@ x : c \in {Context, OtherContext}, x \in ContextExtras}

PairFunds == {<<>>, CleanFund, CleanFund @@ [tg_agreement |-> JTrue],
              [spread_ok |-> JFalse, no_cb_conflict |-> JTrue]}

DefaultPayload ==
  MkPayload(0, 0, <<>>, <<>>, JNull, <<>>)

\* DefaultPayload without the keys in m
Without(m) ==
  [k \in (DOMAIN DefaultPayload) \ m |-> DefaultPayload[k]]

Pending == [kind |-> "pending"]

MainCall(valid_json, payload) ==
  [fn |-> "agent_policy.main", valid_json |-> valid_json, payload |-> payload]

\* two runs of agent_policy.main, on payload and on other
TwiceCall(payload, other) ==
  [fn |-> "agent_policy.main twice", payload |-> payload, other |-> other]

(* ---------------------------------------------------------------------- *)
(* Initial states: a script has been started on its input and has not      *)
(* answered yet                                                            *)
(* ---------------------------------------------------------------------- *)
InitPolicy ==
  /\ ret = Pending
  /\ \/ \* every veto input, every pre_action, every score pair
        \E s16 \in Score16Samples, s6 \in Score6Samples, tech \in TechSamples,
           fund \in PartialMaps(VetoKeys, BoolVals), pre \in PreActionVals,
           opt \in OptionalMaps :
          call = MainCall(TRUE, MkPayload(s16, s6, tech, fund, pre, opt))
     \/ \* every value of the six directional flags, every pre_action and score
        \E s16 \in 0..MaxScore16, s6 \in 0..MaxScore6,
           tech \in [DirKeys -> BoolVals], pre \in PreActionVals :
          call = MainCall(TRUE, MkPayload(s16, s6, tech, CleanFund, pre, <<>>))
     \/ \* the same with an empty technical map
        \E s16 \in 0..MaxScore16, s6 \in 0..MaxScore6, pre \in PreActionVals :
          call = MainCall(TRUE, MkPayload(s16, s6, <<>>, CleanFund, pre, <<>>))
     \/ \* scores below 0 and beyond 16 and 6
        \E s16 \in (0 - ScoreSlack)..(MaxScore16 + ScoreSlack),
           s6 \in (0 - ScoreSlack)..(MaxScore6 + ScoreSlack) :
          call = MainCall(TRUE, MkPayload(s16, s6, <<>>, CleanFund,
                                          JStr("BUY"), <<>>))
     \/ \* every one and every two of the technical flags true, every value
        \* of the supportive fundamental flags, with and without a veto
        \E k1 \in ReasonKeys \cup {UndeclaredKey}, k2 \in ReasonKeys,
           pt \in PatternTypes, fund \in [SupportKeys -> BoolVals],
           spread_ok \in BoolVals :
          call = MainCall(TRUE,
                   MkPayload(MaxScore16, MaxScore6, TechWith({k1, k2}) @@ pt,
                             fund @@ [spread_ok |-> spread_ok],
                             JStr("BUY"), <<>>))
     \/ \* every technical flag true, and none
        \E on \in {{}, ReasonKeys}, pt \in PatternTypes,
           fund \in PartialMaps(SupportKeys, BoolVals) :
          call = MainCall(TRUE,
                   MkPayload(MaxScore16, MaxScore6, TechWith(on) @@ pt, fund,
                             JStr("SELL"), <<>>))
     \/ \* flag values that are not booleans
        \E tech \in PartialMaps({"ema9_gt_21", "rsi_lt_40"}, FlagVals),
           fund \in PartialMaps({"spread_ok", "tg_agreement"}, FlagVals),
           pre \in {JNull, JStr("BUY")} :
          call = MainCall(TRUE,
                   MkPayload(MaxScore16, MaxScore6, tech, fund, pre, <<>>))
     \/ \* payloads that lack at least one required top-level key
        \E m \in (SUBSET RequiredKeys) \ {{}} :
          call = MainCall(TRUE, Without(m))
     \/ \* input that is not JSON
        call = MainCall(FALSE, <<>>)

\* two payloads that agree on everything but the price/context fields
InitPair ==
  /\ ret = Pending
  /\ \E s16 \in Score16Samples, s6 \in Score6Samples, tech \in TechSamples,
        fund \in PairFunds, pre \in {JNull, JStr("BUY"), JStr("SELL")},
        c1 \in Contexts, c2 \in Contexts :
       call = TwiceCall(c1 @@ MkPayload(s16, s6, tech, fund, pre, <<>>),
                        c2 @@ MkPayload(s16, s6, tech, fund, pre, <<>>))

\* a call of one of the vote functions on a flag dictionary, or of
\* core.analyze_once on a candle series
InitVotes ==
  /\ ret = Pending
  /\ \/ \E flags \in [TdBullKeys \cup TdBearKeys -> BOOLEAN] :
          call = [fn |-> "export_json_td.choose_action", flags |-> flags]
     \/ \E flags \in [UnifiedBullKeys \cup UnifiedBearKeys -> BOOLEAN] :
          call = [fn |-> "export_json_unified.pre_action_from_flags",
                  flags |-> flags]
     \/ \E flags \in [TentativeKeys -> BOOLEAN] :
          call = [fn |-> "export_json.tentative_action", flags |-> flags]
     \/ \E flags \in [StocksBullKeys \cup StocksBearKeys -> BOOLEAN] :
          call = [fn |-> "export_stocks_av.vote_action", flags |-> flags]
     \/ \E obs \in Observations :
          call = [fn |-> "core.analyze_once", candles |-> "ok", obs |-> obs]
     \/ call = [fn |-> "core.analyze_once", candles |-> "empty",
                obs |-> NoObservation]

\* an exporter has been started, or export_json_av.pre_action_from_flags
\* has been called on a dictionary of 16 technical flags
InitExport ==
  /\ ret = Pending
  /\ \/ \E flags \in [AvBullKeys \cup AvBearKeys -> BOOLEAN] :
          call = [fn |-> "export_json_av.pre_action_from_flags",
                  flags |-> flags @@ [k \in AvUnreadKeys |-> FALSE]]
     \/ \E obs \in AvObservations, spread \in {12} :
          call = ExportCall("export_json_av", Env(TRUE, "fx", "ok"), obs, spread)
     \/ \E obs \in TdObservations, spread \in SpreadSamples :
          call = ExportCall("export_json_td", Env(TRUE, "fx", "ok"), obs, spread)
     \/ \E obs \in UnifiedObservations, route \in {"fx", "stock"} :
          call = ExportCall("export_json_unified", Env(TRUE, route, "ok"),
                            obs, 12)
     \/ \E obs \in StocksObservations :
          call = ExportCall("export_stocks_av", Env(TRUE, "stock", "ok"), obs, 0)
     \/ \E fn \in {"export_json_av", "export_json_td", "export_json_unified",
                    "export_stocks_av"} :
          \E env \in FailingEnvs(fn) :
            call = ExportCall(fn, env, NoObservation, 12)

(* ---------------------------------------------------------------------- *)
(* Actions                                                                 *)
(* ---------------------------------------------------------------------- *)
\* agent_policy.main on a raw input that is not JSON
MainInvalidJson ==
  /\ call.fn = "agent_policy.main"
  /\ ret = Pending
  /\ ~call.valid_json
  /\ ret' = [kind |-> "error", error |-> "invalid_json", fields |-> <<>>]
  /\ UNCHANGED call

\* agent_policy.main on a JSON payload
Main ==
  /\ call.fn = "agent_policy.main"
  /\ ret = Pending
  /\ call.valid_json
  /\ ret' = agent_policy_out(call.payload)
  /\ UNCHANGED call

PolicyNext == MainInvalidJson \/ Main

\* agent_policy.main run on each of two payloads
MainTwice ==
  /\ call.fn = "agent_policy.main twice"
  /\ ret = Pending
  /\ ret' = [kind |-> "pair", first |-> agent_policy_out(call.payload),
             second |-> agent_policy_out(call.other)]
  /\ UNCHANGED call

PairNext == MainTwice

ChooseAction ==
  /\ call.fn = "export_json_td.choose_action"
  /\ ret = Pending
  /\ ret' = [kind |-> "action", action |-> choose_action(call.flags)]
  /\ UNCHANGED call

PreActionFromFlags ==
  /\ call.fn = "export_json_unified.pre_action_from_flags"
  /\ ret = Pending
  /\ ret' = [kind |-> "action", action |-> pre_action_from_flags(call.flags)]
  /\ UNCHANGED call

TentativeAction ==
  /\ call.fn = "export_json.tentative_action"
  /\ ret = Pending
  /\ ret' = [kind |-> "action", action |-> tentative_action(call.flags)]
  /\ UNCHANGED call

VoteAction ==
  /\ call.fn = "export_stocks_av.vote_action"
  /\ ret = Pending
  /\ ret' = [kind |-> "action", action |-> vote_action(call.flags)]
  /\ UNCHANGED call

AnalyzeOnce ==
  /\ call.fn = "core.analyze_once"
  /\ ret = Pending
  /\ ret' = analyze_once(call.candles, call.obs)
  /\ UNCHANGED call

VotesNext ==
  \/ ChooseAction
  \/ PreActionFromFlags
  \/ TentativeAction
  \/ VoteAction
  \/ AnalyzeOnce

SpecVotes == InitVotes /\ [][VotesNext]_vars

SpecPolicy == InitPolicy /\ [][PolicyNext]_vars

AvPreActionFromFlags ==
  /\ call.fn = "export_json_av.pre_action_from_flags"
  /\ ret = Pending
  /\ ret' = [kind |-> "action", action |-> av_pre_action_from_flags(call.flags)]
  /\ UNCHANGED call

ExportAv ==
  /\ call.fn = "export_json_av"
  /\ ret = Pending
  /\ ret' = av_main(call.env, call.obs, call.spread)
  /\ UNCHANGED call

ExportTd ==
  /\ call.fn = "export_json_td"
  /\ ret = Pending
  /\ ret' = td_main(call.env, call.obs, call.spread)
  /\ UNCHANGED call

ExportUnified ==
  /\ call.fn = "export_json_unified"
  /\ ret = Pending
  /\ ret' = unified_main(call.env, call.obs, call.spread)
  /\ UNCHANGED call

ExportStocks ==
  /\ call.fn = "export_stocks_av"
  /\ ret = Pending
  /\ ret' = stocks_main(call.env, call.obs, call.spread)
  /\ UNCHANGED call

\* enrich_json.main: the JSON an exporter wrote (--base) is merged with the
\* output of news_sentiment.run (--news) and printed
Enrich ==
  /\ ret.kind = "export"
  /\ ~ret.enriched
  /\ Len(ret.stdout) = 1
  /\ \E news \in NewsOutcomes :
       ret' = [ret EXCEPT !.stdout = <<deep_merge(ret.stdout[1], run(news))>>,
                          !.exit = 0, !.enriched = TRUE]
  /\ UNCHANGED call

ExportNext ==
  \/ AvPreActionFromFlags
  \/ ExportAv
  \/ ExportTd
  \/ ExportUnified
  \/ ExportStocks
  \/ Enrich

SpecPair == InitPair /\ [][PairNext]_vars

SpecExport == InitExport /\ [][ExportNext]_vars

(* ---------------------------------------------------------------------- *)
(* Analyst.py: the offline analyzer.  A pair is a string, modelled as the  *)
(* sequence of its characters; scores are in units of 1/100                *)
(* ---------------------------------------------------------------------- *)
MaxPairTokens == 3

UpperOf ==
  ("e" :> "E") @@ ("u" :> "U") @@ ("r" :> "R") @@ ("s" :> "S") @@ ("d" :> "D")

\* str.upper
upper(s) ==
  [i \in 1..Len(s) |-> IF s[i] \in DOMAIN UpperOf THEN UpperOf[s[i]] ELSE s[i]]

\* str.startswith
startswith(s, prefix) ==
  Len(s) >= Len(prefix) /\ SubSeq(s, 1, Len(prefix)) = prefix

\* str.endswith
endswith(s, suffix) ==
  Len(s) >= Len(suffix) /\ SubSeq(s, Len(s) - Len(suffix) + 1, Len(s)) = suffix

\* sub in s
contains(s, sub) ==
  \E i \in 0..(Len(s) - Len(sub)) : SubSeq(s, i + 1, i + Len(sub)) = sub

EUR == <<"E", "U", "R">>

USD == <<"U", "S", "D">>

JPY == <<"J", "P", "Y">>

\* prices in units of 1/10000
DEFAULT_LEVELS ==
  [support |-> <<10800, 10750, 10700>>, resistance |-> <<10900, 10950, 11000>>]

_shape ==
  [pair |-> <<"E", "U", "R", "U", "S", "D">>,
   score |-> 0,
   bias |-> "neutral",
   summary |-> <<"Fallback analysis (no live data connected).">>,
   events |-> <<>>,
   levels |-> DEFAULT_LEVELS,
   confidence |-> "low",
   notes |-> <<>>]

\* the bias_score of lines 41-50, in units of 1/100
BiasScore(pair_up) ==
  (IF startswith(pair_up, EUR) THEN 20 ELSE 0)
  + (IF endswith(pair_up, USD) THEN 20 ELSE 0)

AnalystNotes(pair_up) ==
  (IF startswith(pair_up, EUR) THEN <<"EUR as base">> ELSE <<>>)
  \o (IF endswith(pair_up, USD) THEN <<"USD as quote">> ELSE <<>>)
  \o (IF contains(pair_up, JPY) THEN <<"JPY pairs can be choppy">> ELSE <<>>)

BiasLabel(bias_score) ==
  IF bias_score > 25 THEN "bullish"
  ELSE IF bias_score < -25 THEN "bearish"
  ELSE "neutral"

Min(a, b) == IF a < b THEN a ELSE b

Max(a, b) == IF a > b THEN a ELSE b

AnalysisOf(pair, bias_score, notes) ==
  LET bias == BiasLabel(bias_score)
      score == 50 + Max(-50, Min(50, bias_score))
  IN  [_shape EXCEPT !.pair = pair, !.notes = notes, !.bias = bias,
                     !.score = score,
                     !.summary = <<pair, " bias: ", bias, " | score=", score>>]

\* ends-with-USD leans against the pair, as the comment of line 39 has it
analyze_24h_usd_bearish(pair) ==
  LET pair_up == upper(pair)
  IN  AnalysisOf(pair,
                 (IF startswith(pair_up, EUR) THEN 20 ELSE 0)
                 - (IF endswith(pair_up, USD) THEN 40 ELSE 0),
                 AnalystNotes(pair_up))

analyze_24h(pair) ==
  LET pair_up == upper(pair)
  IN  AnalysisOf(pair, BiasScore(pair_up), AnalystNotes(pair_up))

\* generate_signal's return value computed from the analysis
SignalOf(pair, analysis) ==
  LET score == IF "score" \in DOMAIN analysis THEN analysis.score ELSE 50
      bias == IF "bias" \in DOMAIN analysis THEN analysis.bias ELSE "neutral"
      levels == IF "levels" \in DOMAIN analysis /\ DOMAIN analysis.levels # {}
                THEN analysis.levels ELSE DEFAULT_LEVELS
      action == IF score >= 65 THEN "BUY"
                ELSE IF score <= 35 THEN "SELL"
                ELSE "HOLD"
      conf == IF score >= 65 THEN (IF score < 80 THEN "medium" ELSE "high")
              ELSE IF score <= 35 THEN (IF score > 20 THEN "medium" ELSE "high")
              ELSE "low"
      reason == IF score >= 65 THEN <<"Bias ", bias, " with score ", score, " >= 0.65">>
                ELSE IF score <= 35
                     THEN <<"Bias ", bias, " with score ", score, " <= 0.35">>
                ELSE <<"Mixed signals; score ", score, " near neutral">>
  IN  [pair |-> pair, action |-> action, confidence |-> conf, reason |-> reason,
       score |-> score, levels |-> levels, analysis |-> analysis]

\* the signal without its levels
generate_signal_no_levels(pair) ==
  [k \in (DOMAIN SignalOf(pair, analyze_24h(pair))) \ {"levels"} |->
     SignalOf(pair, analyze_24h(pair))[k]]

generate_signal(pair) == SignalOf(pair, analyze_24h(pair))

PairTokens ==
  {EUR, USD, JPY, <<"G", "B", "P">>, <<"e", "u", "r">>, <<"u", "s", "d">>,
   <<"/">>, <<"=", "X">>}

RECURSIVE PairsOf(_)
\* the strings made of n tokens
PairsOf(n) ==
  IF n = 0 THEN {<<>>}
  ELSE {p \o t : p \in PairsOf(n - 1), t \in PairTokens}

PairSamples == UNION {PairsOf(n) : n \in 0..MaxPairTokens}

Returns(value) == [kind |-> "return", value |-> value]

InitAnalyst ==
  /\ ret = Pending
  /\ \E fn \in {"Analyst.analyze_24h", "Analyst.generate_signal"} :
       \E pair \in PairSamples : call = [fn |-> fn, pair |-> pair]

Analyze24h ==
  /\ call.fn = "Analyst.analyze_24h"
  /\ ret = Pending
  /\ ret' = Returns(analyze_24h(call.pair))
  /\ UNCHANGED call

GenerateSignal ==
  /\ call.fn = "Analyst.generate_signal"
  /\ ret = Pending
  /\ ret' = Returns(generate_signal(call.pair))
  /\ UNCHANGED call

AnalystNext == Analyze24h \/ GenerateSignal

SpecAnalyst == InitAnalyst /\ [][AnalystNext]_vars

(* ---------------------------------------------------------------------- *)
(* market_data_fetcher.py: the 24h analysis over yfinance history.        *)
(* Percentages are in units of 1/1000 of a percent, scores in 1/1000       *)
(* ---------------------------------------------------------------------- *)
FOREX ==
  (<<"E", "U", "R", "U", "S", "D">> :> <<"E", "U", "R", "U", "S", "D", "=", "X">>) @@
  (<<"G", "B", "P", "U", "S", "D">> :> <<"G", "B", "P", "U", "S", "D", "=", "X">>) @@
  (<<"U", "S", "D", "J", "P", "Y">> :> <<"U", "S", "D", "J", "P", "Y", "=", "X">>) @@
  (<<"U", "S", "D", "C", "H", "F">> :> <<"U", "S", "D", "C", "H", "F", "=", "X">>) @@
  (<<"A", "U", "D", "U", "S", "D">> :> <<"A", "U", "D", "U", "S", "D", "=", "X">>) @@
  (<<"N", "Z", "D", "U", "S", "D">> :> <<"N", "Z", "D", "U", "S", "D", "=", "X">>) @@
  (<<"U", "S", "D", "C", "A", "D">> :> <<"U", "S", "D", "C", "A", "D", "=", "X">>) @@
  (<<"E", "U", "R", "G", "B", "P">> :> <<"E", "U", "R", "G", "B", "P", "=", "X">>)

COMMODITIES ==
  (<<"X", "A", "U", "U", "S", "D">> :> <<"G", "C", "=", "F">>) @@
  (<<"X", "A", "G", "U", "S", "D">> :> <<"S", "I", "=", "F">>) @@
  (<<"W", "T", "I">> :> <<"C", "L", "=", "F">>) @@
  (<<"B", "R", "E", "N", "T">> :> <<"B", "Z", "=", "F">>) @@
  (<<"N", "G", "A", "S">> :> <<"N", "G", "=", "F">>)

ALL_MAP == FOREX @@ COMMODITIES

ALL_MAP_values == {ALL_MAP[k] : k \in DOMAIN ALL_MAP}

\* str.replace("/", "")
NoSlash(s) == SelectSeq(s, LAMBDA c : c # "/")

RECURSIVE lstrip(_)
lstrip(s) == IF s # <<>> /\ Head(s) = " " THEN lstrip(Tail(s)) ELSE s

RECURSIVE rstrip(_)
rstrip(s) ==
  IF s # <<>> /\ s[Len(s)] = " " THEN rstrip(SubSeq(s, 1, Len(s) - 1)) ELSE s

\* str.strip
strip(s) == rstrip(lstrip(s))

\* lines 113-127: the yfinance ticker and the label of the result
Resolve(symbol_or_name) ==
  LET s == strip(NoSlash(upper(symbol_or_name)))
  IN  IF s \in DOMAIN ALL_MAP THEN [ysym |-> ALL_MAP[s], pair_label |-> s]
      ELSE IF s \in ALL_MAP_values
           THEN [ysym |-> s,
                 pair_label |-> CHOOSE k \in DOMAIN ALL_MAP : ALL_MAP[k] = s]
      ELSE [ysym |-> IF endswith(s, <<"=", "X">>) \/ endswith(s, <<"=", "F">>)
                     THEN s ELSE s \o <<"=", "X">>,
            pair_label |-> s]

FallbackScore == 500

_fallback(pair, why) ==
  [pair |-> upper(pair),
   score |-> FallbackScore,
   bias |-> "neutral",
   levels |-> [support |-> <<>>, resistance |-> <<>>],
   reason |-> <<"No data from provider; neutral fallback.", why>>]

\* (pct_change + 5.0) / 10.0 clamped to 0..1
PctScore(pct) == Max(0, Min(1000, (pct + 5000) \div 10))

_pct_to_score(pct) ==
  IF pct > 1000 THEN [score |-> PctScore(pct), bias |-> "bullish",
                      reason |-> <<"Price +", pct, " in last 24h.">>]
  ELSE IF pct < -1000 THEN [score |-> PctScore(pct), bias |-> "bearish",
                            reason |-> <<"Price ", pct, " in last 24h.">>]
  ELSE [score |-> PctScore(pct), bias |-> "neutral",
        reason |-> <<"Price within 1 percent in last 24h.">>]

\* a value of the Close column: a finite number (in units of 1/100), nan,
\* inf, or an object float() rejects
Num(v) == [t |-> "num", v |-> v]

NaN == [t |-> "nan", v |-> 0]

Inf == [t |-> "inf", v |-> 0]

NotANumber == [t |-> "object", v |-> 0]

isfinite(x) == x.t = "num"

\* a DataFrame: the Close column (absent: has_close false) of its bars, how
\* many of the last bars lie within a day of the last one, and whether the
\* Low and High columns can be read
DataFrame(has_close, closes, recent, has_ohlc) ==
  [has_close |-> has_close, closes |-> closes, recent |-> recent,
   has_ohlc |-> has_ohlc]

EmptyFrame == DataFrame(FALSE, <<>>, 0, FALSE)

\* df.loc[df.index >= start], then df.tail(24) when that has fewer than 2 bars
Last24(df) ==
  LET window == SubSeq(df.closes, Len(df.closes) - df.recent + 1, Len(df.closes))
  IN  IF Len(window) < 2
      THEN SubSeq(df.closes, Max(1, Len(df.closes) - 23), Len(df.closes))
      ELSE window

\* the three lowest lows and highest highs of the bars; only their number is
\* modelled
_levels_from_ohlc(df, last24) ==
  IF df.has_ohlc
  THEN [support |-> [i \in 1..Min(3, Len(last24)) |-> "low"],
        resistance |-> [i \in 1..Min(3, Len(last24)) |-> "high"]]
  ELSE [support |-> <<>>, resistance |-> <<>>]

\* (last_close / first_close - 1.0) * 100.0
PctChange(first_close, last_close) ==
  ((last_close * 100000) \div first_close) - 100000

\* the last close is checked like the first one
AnalyzeFrame_checks_last(pair_label, df) ==
  IF df.closes = <<>> \/ ~df.has_close
  THEN _fallback(pair_label, "Empty DataFrame.")
  ELSE LET last24 == Last24(df)
           first_close == last24[1]
           last_close == last24[Len(last24)]
       IN  IF Len(last24) < 2 THEN _fallback(pair_label, "Insufficient bars.")
           ELSE IF NotANumber \in {first_close, last_close}
                THEN _fallback(pair_label, "Change calc error")
           ELSE IF first_close = Num(0) \/ last_close = Num(0)
                   \/ ~isfinite(first_close) \/ ~isfinite(last_close)
                THEN _fallback(pair_label, "Invalid close values.")
           ELSE [pair |-> pair_label, levels |-> _levels_from_ohlc(df, last24)]
                @@ _pct_to_score(PctChange(first_close.v, last_close.v))

\* lines 131-165: analyze_24h once the history is there
AnalyzeFrame(pair_label, df) ==
  IF df.closes = <<>> \/ ~df.has_close
  THEN _fallback(pair_label, "Empty DataFrame.")
  ELSE LET last24 == Last24(df)
           first_close == last24[1]
           last_close == last24[Len(last24)]
       IN  IF Len(last24) < 2 THEN _fallback(pair_label, "Insufficient bars.")
           ELSE IF NotANumber \in {first_close, last_close}
                THEN _fallback(pair_label, "Change calc error")
           ELSE IF first_close = Num(0)
                   \/ ~isfinite(first_close) \/ ~isfinite(last_close)
                THEN _fallback(pair_label, "Invalid close values.")
           ELSE [pair |-> pair_label, levels |-> _levels_from_ohlc(df, last24)]
                @@ _pct_to_score(PctChange(first_close.v, last_close.v))

HistoryTries == 3

MaxBars == 3

AttemptOutcomes == {"raise", "empty", "data"}

CloseSamples == {Num(0), Num(90), Num(100), Num(103), Num(200), NaN, Inf, NotANumber}

SymbolSamples ==
  {<<"E", "U", "R", "U", "S", "D">>, <<"e", "u", "r", "/", "u", "s", "d", " ">>,
   <<"G", "C", "=", "F">>, <<"D", "U", "R">>, <<>>}

MarketCall(symbol, attempts, df) ==
  [fn |-> "market_data_fetcher.analyze_24h", symbol |-> symbol,
   attempts |-> attempts, df |-> df]

InitMarket ==
  /\ ret = Pending
  /\ \/ \E symbol \in SymbolSamples :
          \E attempts \in [1..HistoryTries -> AttemptOutcomes] :
            call = MarketCall(symbol, attempts,
                              DataFrame(TRUE, <<Num(100), Num(103)>>, 2, TRUE))
     \/ \E n \in 1..MaxBars :
          \E closes \in [1..n -> CloseSamples] :
            \E recent \in 1..n :
              \E cols \in {<<TRUE, TRUE>>, <<TRUE, FALSE>>, <<FALSE, TRUE>>} :
                call = MarketCall(<<"E", "U", "R", "U", "S", "D">>,
                                  [k \in 1..HistoryTries |-> "data"],
                                  DataFrame(cols[1], closes, recent, cols[2]))

\* _history_retry, one attempt of the loop of lines 94-101: the k-th call of
\* yf.Ticker(...).history returns a frame with bars, returns an empty one, or
\* raises (and the loop sleeps)
HistoryAttempt ==
  /\ call.fn = "market_data_fetcher.analyze_24h"
  /\ ret.kind \in {"pending", "history"}
  /\ LET k == IF ret = Pending THEN 0 ELSE ret.k
         last_exc == IF ret = Pending THEN FALSE ELSE ret.last_exc
     IN  /\ k < HistoryTries
         /\ ret' = IF call.attempts[k + 1] = "data"
                   THEN [kind |-> "frame", df |-> call.df, k |-> k + 1]
                   ELSE [kind |-> "history", k |-> k + 1,
                         last_exc |-> last_exc \/ call.attempts[k + 1] = "raise"]
  /\ UNCHANGED call

\* _history_retry, lines 102-104: every attempt failed
HistoryGiveUp ==
  /\ call.fn = "market_data_fetcher.analyze_24h"
  /\ ret.kind = "history"
  /\ ret.k = HistoryTries
  /\ ret' = [kind |-> "frame", df |-> EmptyFrame, k |-> ret.k]
  /\ UNCHANGED call

MarketAnalyze24h ==
  /\ call.fn = "market_data_fetcher.analyze_24h"
  /\ ret.kind = "frame"
  /\ ret' = Returns(AnalyzeFrame(Resolve(call.symbol).pair_label, ret.df))
  /\ UNCHANGED call

MarketNext == HistoryAttempt \/ HistoryGiveUp \/ MarketAnalyze24h

SpecMarket == InitMarket /\ [][MarketNext]_vars

(* ---------------------------------------------------------------------- *)
(* forex_event_scalper.tg_send: POST with retries                          *)
(* ---------------------------------------------------------------------- *)
MaxRetries == 5

DefaultRetries == 4

\* what one requests.post does: it answers with a status code or raises
Answer(status_code) == [raised |-> FALSE, status_code |-> status_code]

Raised == [raised |-> TRUE, status_code |-> 0]

PostOutcomes == {Answer(200), Answer(502), Raised}

\* any answer counts as a success
Succeeded_any_answer(r) == ~r.raised

\* lines 53-55: the attempt succeeded
Succeeded(r) == ~r.raised /\ r.status_code = 200

\* line 56 and line 58: the error the attempt leaves in last_err
LastErr(r) == IF r.raised THEN "exception" ELSE "HTTP status"

TgCall(retries, posts) ==
  [fn |-> "forex_event_scalper.tg_send", retries |-> retries, posts |-> posts]

\* the function has made `attempts` POSTs and returns value
TgReturn(value, attempts) ==
  [kind |-> "return", value |-> value, attempts |-> attempts]

InitTg ==
  /\ ret = Pending
  /\ \E retries \in 0..MaxRetries :
       \E posts \in [1..MaxRetries -> PostOutcomes] :
         call = TgCall(retries, posts)

\* one turn of the loop of lines 52-59: POST, return True on HTTP 200,
\* otherwise record the error and sleep backoff ** attempt
TgAttempt ==
  /\ call.fn = "forex_event_scalper.tg_send"
  /\ ret.kind \in {"pending", "sending"}
  /\ LET attempt == IF ret = Pending THEN 1 ELSE ret.attempts + 1
     IN  /\ attempt <= call.retries
         /\ ret' = IF Succeeded(call.posts[attempt])
                   THEN TgReturn(TRUE, attempt)
                   ELSE [kind |-> "sending", attempts |-> attempt,
                         last_err |-> LastErr(call.posts[attempt])]
  /\ UNCHANGED call

\* lines 61-62: the range is exhausted
TgGiveUp ==
  /\ call.fn = "forex_event_scalper.tg_send"
  /\ ret.kind \in {"pending", "sending"}
  /\ LET attempts == IF ret = Pending THEN 0 ELSE ret.attempts
     IN  /\ attempts >= call.retries
         /\ ret' = TgReturn(FALSE, attempts)
  /\ UNCHANGED call

TgNext == TgAttempt \/ TgGiveUp

\* tg_send runs to its end: every POST has a timeout and every sleep is finite
SpecTg == InitTg /\ [][TgNext]_vars /\ WF_vars(TgNext)

(* ---------------------------------------------------------------------- *)
(* core.get_candles and helpers/core_td_patch.py over a series of calls    *)
(* ---------------------------------------------------------------------- *)
MaxCalls == 3

\* what the TwelveData request of one call meets
TdOutcomes == {"ok", "no_key", "http_error", "empty_values"}

\* what yf.download of one call gives
YfOutcomes == {"ok", "empty"}

\* the (df, src, tf_lbl) a fetch returns, with the fetches that were made
Candles(rows, src, fetched) == [rows |-> rows, src |-> src, fetched |-> fetched]

\* core._yf_get, lines 49-67
_yf_get(yf, fetched) ==
  IF yf = "ok" THEN Candles(TRUE, "YF", fetched \o <<"yfinance">>)
  ELSE Candles(FALSE, "NONE", fetched \o <<"yfinance">>)

\* helpers.core_td_patch.get_candles, lines 57-75: no API key (no request is
\* made), a failed request and an empty values list all give an empty frame
\* labelled TD
td_get_candles(td) ==
  IF td = "no_key" THEN Candles(FALSE, "TD", <<>>)
  ELSE IF td = "ok" THEN Candles(TRUE, "TD", <<"twelvedata">>)
  ELSE Candles(FALSE, "TD", <<"twelvedata">>)

\* core._td_get, lines 31-38: the helper's answer, or _yf_get when importing
\* or calling the helper raises
_td_get(helper, td, yf) ==
  IF helper = "missing" THEN _yf_get(yf, <<>>)
  ELSE LET answer == td_get_candles(td)
       IN  IF "raised" \in DOMAIN answer THEN _yf_get(yf, <<"twelvedata">>)
           ELSE answer

CandlesCall(helper, tds, yfs) ==
  [fn |-> "core.get_candles", helper |-> helper, tds |-> tds, yfs |-> yfs]

InitCandles ==
  /\ ret = Pending
  /\ \E helper \in {"present", "missing"} :
       \E n \in 1..MaxCalls :
         \E tds \in [1..n -> TdOutcomes] :
           \E yfs \in [1..n -> YfOutcomes] :
             call = CandlesCall(helper, tds, yfs)

\* the calls of core.get_candles answered so far, and whether the name
\* core.get_candles has been rebound by the helper's import
CandlesSoFar ==
  IF ret = Pending THEN [kind |-> "candles", patched |-> FALSE, answers |-> <<>>]
  ELSE ret

\* a call of core.get_candles while the name is bound to core's own function:
\* _td_get imports the helper, whose module body rebinds core.get_candles
\* (lines 78-80), and calls it
GetCandles ==
  /\ call.fn = "core.get_candles"
  /\ ret.kind \in {"pending", "candles"}
  /\ ~CandlesSoFar.patched
  /\ LET i == Len(CandlesSoFar.answers) + 1
     IN  /\ i <= Len(call.tds)
         /\ ret' = [kind |-> "candles",
                    patched |-> (call.helper = "present"),
                    answers |-> Append(CandlesSoFar.answers,
                                       _td_get(call.helper, call.tds[i],
                                               call.yfs[i]))]
  /\ UNCHANGED call

\* a call of core.get_candles after the rebinding: the helper's function runs
GetCandlesPatched ==
  /\ call.fn = "core.get_candles"
  /\ ret.kind = "candles"
  /\ ret.patched
  /\ LET i == Len(ret.answers) + 1
     IN  /\ i <= Len(call.tds)
         /\ ret' = [ret EXCEPT !.answers = Append(@, td_get_candles(call.tds[i]))]
  /\ UNCHANGED call

CandlesNext == GetCandles \/ GetCandlesPatched

SpecCandles == InitCandles /\ [][CandlesNext]_vars

(* ---------------------------------------------------------------------- *)
(* render_agent.veto_and_merge.  The texts of the risks are sequences of   *)
(* characters                                                              *)
(* ---------------------------------------------------------------------- *)
MaxRisks == 2

LowerOf ==
  ("S" :> "s") @@ ("T" :> "t") @@ ("A" :> "a") @@ ("L" :> "l") @@ ("E" :> "e")
  @@ ("N" :> "n") @@ ("O" :> "o") @@ ("R" :> "r") @@ ("P" :> "p")

\* str.lower
lower(s) ==
  [i \in 1..Len(s) |-> IF s[i] \in DOMAIN LowerOf THEN LowerOf[s[i]] ELSE s[i]]

RECURSIVE Join(_)
\* " ".join(texts)
Join(texts) ==
  IF texts = <<>> THEN <<>>
  ELSE IF Len(texts) = 1 THEN texts[1]
  ELSE texts[1] \o <<" ">> \o Join(Tail(texts))

stale == <<"s", "t", "a", "l", "e">>

no_atr_plan == <<"n", "o", " ", "a", "t", "r", " ", "p", "l", "a", "n">>

\* a key the JSON object does not have
Absent == [t |-> "absent", v |-> ""]

\* the object with the keys of f whose value is not Absent
Object(f) == [k \in {k \in DOMAIN f : f[k] # Absent} |-> f[k]]

\* the values a JSON float truncates to under int()
Truncation == ("4.9" :> 4) @@ ("2.5" :> 2)

\* int(x) raises: a list, a non-numeric string, NaN
IntRaises(j) ==
  \/ j.t \in {"null", "list"}
  \/ j.t = "str" /\ j.v \notin DOMAIN Numeral
  \/ j.t = "num" /\ j.v \notin (DOMAIN Numeral \cup DOMAIN Truncation)

\* int(x) where it does not raise
IntOf(j) ==
  CASE j.t = "bool" -> (IF j.v = "true" THEN 1 ELSE 0)
    [] j.v \in DOMAIN Numeral -> Numeral[j.v]
    [] j.v \in DOMAIN Truncation -> Truncation[j.v]
    [] OTHER -> 0

coalesce(x, default) == IF x # JNull THEN x ELSE default

\* lines 26-41
MergedView(signal, agent) ==
  [symbol |-> Get(signal, "symbol", JNull),
   timeframe |-> Get(signal, "timeframe", JNull),
   utc_time |-> Get(signal, "utc_time", JNull),
   price |-> Get(signal, "price", JNull),
   score16 |-> Get(signal, "score16", JNull),
   score6 |-> Get(signal, "score6", JNull),
   pre_action |-> Get(signal, "action", JNull),
   final_action |-> Get(agent, "final_action", JNull),
   confidence |-> Get(agent, "confidence", JNull),
   why |-> Get(agent, "why", JList(<<>>)),
   risks |-> Get(agent, "risks", JList(<<>>)),
   levels |-> Get(agent, "levels", JNull),
   commentary |-> Get(agent, "commentary", JStr("")),
   source |-> Get(signal, "src", Get(signal, "source", JStr("TD")))]

\* lines 44-45
SoftSafety(final_action) ==
  IF final_action \in {JStr("BUY"), JStr("SELL"), JStr("WAIT")}
  THEN final_action ELSE JStr("WAIT")

\* lines 48-49, the risks compared as they are written
RiskVeto_case_sensitive(risks) ==
  LET risk_text == Join(risks)
  IN  contains(risk_text, stale) \/ contains(risk_text, no_atr_plan)

\* lines 48-49
RiskVeto(risks) ==
  LET risk_text == Join([i \in 1..Len(risks) |-> lower(risks[i])])
  IN  contains(risk_text, stale) \/ contains(risk_text, no_atr_plan)

\* lines 51-56
ScoreVeto(out) ==
  LET s == coalesce(out.score16, JNum("0"))
      c == coalesce(out.confidence, JNum("1"))
      failed == IntRaises(s) \/ IntRaises(c)
      score16 == IF failed THEN 0 ELSE IntOf(s)
      conf == IF failed THEN 1 ELSE IntOf(c)
  IN  score16 < 5 /\ conf <= 2

\* an invalid final_action of the agent is replaced by the signal's action
veto_and_merge_signal_fallback(signal, agent) ==
  LET out == MergedView(signal, agent)
  IN  IF out.risks.t = "null" THEN [kind |-> "raise", error |-> "TypeError"]
      ELSE Returns([out EXCEPT !.final_action =
             IF RiskVeto(out.risks.items) \/ ScoreVeto(out) THEN JStr("WAIT")
             ELSE IF @ \in {JStr("BUY"), JStr("SELL"), JStr("WAIT")} THEN @
             ELSE out.pre_action])

\* veto_and_merge; iterating over risks that are null is a TypeError
veto_and_merge(signal, agent) ==
  LET out == MergedView(signal, agent)
  IN  IF out.risks.t = "null" THEN [kind |-> "raise", error |-> "TypeError"]
      ELSE Returns([out EXCEPT !.final_action =
             IF RiskVeto(out.risks.items) \/ ScoreVeto(out) THEN JStr("WAIT")
             ELSE SoftSafety(@)])

RiskSamples ==
  {<<"S", "t", "a", "l", "e", " ", "d", "a", "t", "a">>,
   <<"N", "O", " ", "A", "T", "R", " ", "P", "L", "A", "N", " ", "y", "e", "t">>,
   <<"n", "o", " ", "a", "t", "r">>,
   <<"p", "l", "a", "n", " ", "b">>}

RECURSIVE RiskLists(_)
RiskLists(n) ==
  IF n = 0 THEN {<<>>}
  ELSE RiskLists(n - 1) \cup {Append(l, r) : l \in RiskLists(n - 1), r \in RiskSamples}

AgentActions ==
  {Absent, JNull, JStr("BUY"), JStr("SELL"), JStr("WAIT"), JStr("HOLD")}

SignalActions == {Absent, JStr("BUY"), JStr("SELL"), JStr("WAIT")}

RenderScores ==
  {Absent, JNull, JNum("0"), JNum("4"), JNum("5"), JNum("16"), JNum("4.9"),
   JStr("7"), JStr("n/a")}

RenderConfidences ==
  {Absent, JNull, JNum("1"), JNum("2"), JNum("3"), JNum("2.5"), JStr("high")}

RenderCall(signal, agent) ==
  [fn |-> "render_agent.veto_and_merge", signal |-> signal, agent |-> agent]

InitRender ==
  /\ ret = Pending
  /\ \E final_action \in AgentActions, confidence \in RenderConfidences :
       \E score16 \in RenderScores, action \in SignalActions :
         \E risks \in {Absent, JNull} \cup {JList(l) : l \in RiskLists(MaxRisks)} :
           call = RenderCall(
                    Object([score16 |-> score16, action |-> action,
                            symbol |-> JStr("EUR/USD")]),
                    Object([final_action |-> final_action,
                            confidence |-> confidence, risks |-> risks]))

VetoAndMerge ==
  /\ call.fn = "render_agent.veto_and_merge"
  /\ ret = Pending
  /\ ret' = veto_and_merge(call.signal, call.agent)
  /\ UNCHANGED call

RenderNext == VetoAndMerge

SpecRender == InitRender /\ [][RenderNext]_vars

(* ---------------------------------------------------------------------- *)
(* telegram_bot.main_loop: polling getUpdates without an offset.           *)
(* The environment is a backlog of updates (their update_ids, in the order *)
(* Telegram lists them) and, for each poll, what the request meets and how *)
(* much of the backlog it delivers.  The loop's state is kept in ret with  *)
(* a log of the updates it has gone through.  The replies of lines 49-58   *)
(* (MinimalForexBot is not part of the sources) change nothing of it.      *)
(* ---------------------------------------------------------------------- *)
MaxUpdateId == 3

MaxBacklog == 3

MaxPolls == 2

None == <<>>

Some(x) == <<x>>

\* get_updates, lines 21-27: the JSON of a 200 answer, None after an
\* exception, None (no return statement) after any other status
get_updates(poll, backlog) ==
  IF poll.kind \in {"exception", "status_other"} THEN None
  ELSE IF poll.kind = "no_result" THEN Some([ok |-> FALSE])
  ELSE Some([ok |-> TRUE, result |-> SubSeq(backlog, 1, poll.n)])

\* lines 37-41: the updates the loop goes through after a poll
Batch(updates) ==
  IF updates = None THEN <<>>
  ELSE IF "result" \notin DOMAIN updates[1] THEN <<>>
  ELSE updates[1].result

\* the test also passes on the update_id handled last
ShouldHandle_or_equal(last_update_id, update_id) ==
  IF last_update_id = None THEN TRUE ELSE update_id >= last_update_id[1]

\* line 46
ShouldHandle(last_update_id, update_id) ==
  IF last_update_id = None THEN TRUE ELSE update_id > last_update_id[1]

PollOutcomes(backlog) ==
  {[kind |-> k, n |-> 0] : k \in {"exception", "status_other", "no_result"}}
  \cup {[kind |-> "ok", n |-> n] : n \in 0..Len(backlog)}

LoopCall(backlog, polls) ==
  [fn |-> "telegram_bot.main_loop", backlog |-> backlog, polls |-> polls]

InitLoop ==
  /\ ret = Pending
  /\ \E len \in 0..MaxBacklog :
       \E backlog \in [1..len -> 1..MaxUpdateId] :
         \E polls \in [1..MaxPolls -> PollOutcomes(backlog)] :
           call = LoopCall(backlog, polls)

\* lines 30-33
Listen ==
  /\ call.fn = "telegram_bot.main_loop"
  /\ ret = Pending
  /\ ret' = [kind |-> "loop", polls |-> 0, batch |-> <<>>, pos |-> 0,
             last_update_id |-> None, log |-> <<>>]
  /\ UNCHANGED call

\* lines 36-39 (and the sleep of line 60 before them): the next poll, once
\* the updates of the previous one have been gone through
PollUpdates ==
  /\ call.fn = "telegram_bot.main_loop"
  /\ ret.kind = "loop"
  /\ ret.pos = Len(ret.batch)
  /\ ret.polls < MaxPolls
  /\ ret' = [ret EXCEPT !.polls = @ + 1,
                        !.batch = Batch(get_updates(call.polls[ret.polls + 1],
                                                    call.backlog)),
                        !.pos = 0]
  /\ UNCHANGED call

\* lines 41-58, an update that passes the test of line 46
HandleUpdate ==
  /\ call.fn = "telegram_bot.main_loop"
  /\ ret.kind = "loop"
  /\ ret.pos < Len(ret.batch)
  /\ LET update_id == ret.batch[ret.pos + 1]
     IN  /\ ShouldHandle(ret.last_update_id, update_id)
         /\ ret' = [ret EXCEPT !.pos = @ + 1,
                               !.last_update_id = Some(update_id),
                               !.log = Append(@, [update_id |-> update_id,
                                                  handled |-> TRUE])]
  /\ UNCHANGED call

\* lines 41-46, an update that does not pass it
SkipUpdate ==
  /\ call.fn = "telegram_bot.main_loop"
  /\ ret.kind = "loop"
  /\ ret.pos < Len(ret.batch)
  /\ LET update_id == ret.batch[ret.pos + 1]
     IN  /\ ~ShouldHandle(ret.last_update_id, update_id)
         /\ ret' = [ret EXCEPT !.pos = @ + 1,
                               !.log = Append(@, [update_id |-> update_id,
                                                  handled |-> FALSE])]
  /\ UNCHANGED call

LoopNext == Listen \/ PollUpdates \/ HandleUpdate \/ SkipUpdate

SpecLoop == InitLoop /\ [][LoopNext]_vars

(* ---------------------------------------------------------------------- *)
(* The whole program: any one of its components has been started          *)
(* ---------------------------------------------------------------------- *)
Init ==
  \/ InitPolicy
  \/ InitPair
  \/ InitVotes
  \/ InitExport
  \/ InitAnalyst
  \/ InitMarket
  \/ InitTg
  \/ InitCandles
  \/ InitRender
  \/ InitLoop

Next ==
  \/ PolicyNext
  \/ PairNext
  \/ VotesNext
  \/ ExportNext
  \/ AnalystNext
  \/ MarketNext
  \/ TgNext
  \/ CandlesNext
  \/ RenderNext
  \/ LoopNext

Spec == Init /\ [][Next]_vars

(* ---------------------------------------------------------------------- *)
(* Properties                                                              *)
(* ---------------------------------------------------------------------- *)
\* agent_policy.main has printed a decision for the payload of the call
Decided == call.fn = "agent_policy.main" /\ ret.kind = "decision"

Wait == JStr("WAIT")

PayloadFund == Get(call.payload, "fund", <<>>)

PayloadTech == Get(call.payload, "tech", <<>>)

PayloadPre == Get(call.payload, "pre_action", JNull)

\* the composite of the payload's scores, in units of 1/160
PayloadUnits == 7 * call.payload["score16"] + 8 * call.payload["score6"]

\* one of the five veto conditions holds of the payload
VetoCondition ==
  \/ \E k \in VetoKeys : k \in DOMAIN PayloadFund /\ PayloadFund[k] = JFalse
  \/ ("ttl_ok" \in DOMAIN call.payload /\ call.payload["ttl_ok"] = JFalse)
  \/ ("price_crosscheck" \in DOMAIN call.payload
      /\ call.payload["price_crosscheck"] = JStr("mismatch"))

\* C1: whenever one of the veto conditions holds of an accepted payload, the
\* emitted final_action is WAIT, whatever pre_action, the technical flags and
\* the confidence band are.
C1_VetoForcesWait ==
  (Decided /\ VetoCondition) => ret.final_action = Wait

\* a veto overrides a BUY pre_action at confidence HIGH
C1_Witness ==
  /\ Decided
  /\ VetoCondition
  /\ PayloadPre = JStr("BUY")
  /\ ret.confidence_band = "HIGH"
  /\ ret.final_action = Wait

\* C2: whenever the composite of an accepted payload is below 0.30
\* (7*score16 + 8*score6 < 48), final_action is WAIT, even with pre_action BUY
\* or SELL and no veto.
C2_WeakForcesWait ==
  (Decided /\ PayloadUnits < 48) => ret.final_action = Wait

\* a BUY pre_action without any veto is downgraded just below the threshold
C2_Witness ==
  /\ Decided
  /\ PayloadUnits = 47
  /\ ~VetoCondition
  /\ PayloadPre = JStr("BUY")
  /\ ret.final_action = Wait

\* the vote counts of the call, as the called function counts them
CallBull ==
  CASE call.fn = "export_json_td.choose_action" ->
         CountTrue(TdBullKeys, call.flags)
    [] call.fn = "export_json_unified.pre_action_from_flags" ->
         CountTrue(UnifiedBullKeys, call.flags)
    [] call.fn = "export_json.tentative_action" -> TentativeBulls(call.flags)
    [] call.fn = "export_stocks_av.vote_action" -> StocksBull(call.flags)
    [] call.fn = "core.analyze_once" ->
         IF call.candles = "ok"
           THEN bull_votes(Flags16(call.obs), ExtraFlags(call.obs)) ELSE 0
    [] OTHER -> 0

CallBear ==
  CASE call.fn = "export_json_td.choose_action" ->
         CountTrue(TdBearKeys, call.flags)
    [] call.fn = "export_json_unified.pre_action_from_flags" ->
         CountTrue(UnifiedBearKeys, call.flags)
    [] call.fn = "export_json.tentative_action" -> TentativeBears(call.flags)
    [] call.fn = "export_stocks_av.vote_action" -> StocksBear(call.flags)
    [] call.fn = "core.analyze_once" ->
         IF call.candles = "ok"
           THEN bear_votes(Flags16(call.obs), ExtraFlags(call.obs)) ELSE 0
    [] OTHER -> 0

Returned(fns) == call.fn \in fns /\ ret.kind \in {"action", "analysis"}

\* C3: in core.analyze_once, export_json_td.choose_action and
\* export_json_unified.pre_action_from_flags, whenever a bullish and a bearish
\* vote are counted together the action is WAIT, however many votes either
\* side has.
C3_ConflictIsWait ==
  (/\ Returned({"core.analyze_once", "export_json_td.choose_action",
                "export_json_unified.pre_action_from_flags"})
   /\ CallBull > 0
   /\ CallBear > 0) => ret.action = "WAIT"

\* five bullish votes against one bearish vote in core.analyze_once
C3_Witness ==
  /\ Returned({"core.analyze_once"})
  /\ CallBull = 5
  /\ CallBear = 1
  /\ ret.action = "WAIT"

\* C4: in core.analyze_once and export_json.tentative_action, with no bearish
\* vote the action is BUY exactly when there are at least 3 bullish votes, and
\* with no bullish vote it is SELL exactly when there are at least 3 bearish
\* votes.
C4_ThresholdIsThree ==
  Returned({"core.analyze_once", "export_json.tentative_action"}) =>
    /\ CallBear = 0 => (ret.action = "BUY" <=> CallBull >= 3)
    /\ CallBull = 0 => (ret.action = "SELL" <=> CallBear >= 3)

\* exactly three unopposed bullish votes give BUY in core.analyze_once
C4_Witness ==
  /\ Returned({"core.analyze_once"})
  /\ CallBull = 3
  /\ CallBear = 0
  /\ ret.action = "BUY"

Undirected ==
  /\ Decided
  /\ ~Truthy(PayloadPre)
  /\ ~VetoCondition
  /\ PayloadUnits >= 48

VetoReason ==
  [no_red_news_1h |-> "red news < 1h", spread_ok |-> "spread too high",
   not_mid_candle |-> "mid-candle window"]

CoreVetoKeys == {"No red news next 1h", "Spread acceptable", "Not mid-candle"}

\* core.analyze_once has returned a result computed from candles
Analysed ==
  call.fn = "core.analyze_once" /\ ret.kind = "analysis" /\ call.candles = "ok"

C10_ActionInEnum ==
  Decided => ret.final_action \in {JStr("BUY"), JStr("SELL"), JStr("WAIT")}

\* C11: every accepted payload gets exactly one confidence band, fixed by the
\* exact composite t = 7*score16 + 8*score6 of its integer scores: HIGH iff
\* t >= 112, MEDIUM iff 80 <= t < 112, LOW iff 48 <= t < 80, WEAK iff t < 48,
\* and the clamped composite stays within [0, 1] (0..160 units) also for
\* scores outside 0..16 and 0..6.
C11_BandByExactComposite ==
  Decided =>
    /\ ret.confidence_band \in {"HIGH", "MEDIUM", "LOW", "WEAK"}
    /\ ret.confidence_band = "HIGH" <=> PayloadUnits >= 112
    /\ ret.confidence_band = "MEDIUM" <=> (80 <= PayloadUnits /\ PayloadUnits < 112)
    /\ ret.confidence_band = "LOW" <=> (48 <= PayloadUnits /\ PayloadUnits < 80)
    /\ ret.confidence_band = "WEAK" <=> PayloadUnits < 48
    /\ 0 <= ret.score01 /\ ret.score01 <= 160

\* the five veto reasons, in the order veto_checks tests them
VetoOrder ==
  <<"red news < 1h", "spread too high", "mid-candle window", "stale data",
    "cross-source price mismatch">>

\* the condition of a veto reason holds of the payload of the call
VetoHolds(reason) ==
  CASE reason = "red news < 1h" ->
         "no_red_news_1h" \in DOMAIN PayloadFund
         /\ PayloadFund["no_red_news_1h"] = JFalse
    [] reason = "spread too high" ->
         "spread_ok" \in DOMAIN PayloadFund /\ PayloadFund["spread_ok"] = JFalse
    [] reason = "mid-candle window" ->
         "not_mid_candle" \in DOMAIN PayloadFund
         /\ PayloadFund["not_mid_candle"] = JFalse
    [] reason = "stale data" ->
         "ttl_ok" \in DOMAIN call.payload /\ call.payload["ttl_ok"] = JFalse
    [] reason = "cross-source price mismatch" ->
         "price_crosscheck" \in DOMAIN call.payload
         /\ call.payload["price_crosscheck"] = JStr("mismatch")

\* C12: the vetoes list of a decision holds exactly one reason for each of
\* the five veto conditions that holds of the payload, in the fixed order red
\* news, spread, mid-candle, stale data, price mismatch, and nothing else:
\* every triggered veto is reported, not only the first.
C12_EveryVetoReported ==
  Decided => ret.vetoes = SelectSeq(VetoOrder, VetoHolds)

\* all five vetoes are triggered and all five are reported
C12_Witness ==
  /\ Decided
  /\ \A i \in 1..Len(VetoOrder) : VetoHolds(VetoOrder[i])
  /\ ret.vetoes = VetoOrder

\* the label explain_why gives the i-th declared technical flag
TechLabel(i) ==
  IF TechReasons[i][1] = "pattern"
    THEN "pattern:" \o Get(PayloadTech, "pattern_type", JStr("?")).v
    ELSE TechReasons[i][2]

\* the positions, in declared order, of the declared technical flags that
\* are true in tech, and of the supportive fundamental flags true in fund
TrueTech ==
  SelectSeq([i \in 1..Len(TechReasons) |-> i],
            LAMBDA i : Truthy(Get(PayloadTech, TechReasons[i][1], JNull)))

TrueSupport ==
  SelectSeq([i \in 1..Len(FundReasons) |-> i],
            LAMBDA i : Truthy(Get(PayloadFund, FundReasons[i][1], JNull)))

\* the payload of the call with every veto condition removed
Unvetoed ==
  [k \in (DOMAIN call.payload) \ {"ttl_ok", "price_crosscheck"} |->
     IF k = "fund"
       THEN [f \in DOMAIN PayloadFund |->
               IF f \in VetoKeys THEN JTrue ELSE PayloadFund[f]]
       ELSE call.payload[k]]

BothDecided ==
  /\ call.fn = "agent_policy.main twice"
  /\ ret.kind = "pair"
  /\ ret.first.kind = "decision"
  /\ ret.second.kind = "decision"

\* the two payloads of the call agree on every field that is not a
\* price/context field
SameButContext ==
  /\ (DOMAIN call.payload) \ ContextKeys = (DOMAIN call.other) \ ContextKeys
  /\ \A k \in (DOMAIN call.payload) \ ContextKeys :
       call.payload[k] = call.other[k]

\* C14: two payloads that differ only in the price/context fields (price,
\* spread_pips, support, resistance, provenance, valid_until, symbol,
\* timeframe, utc_build) get the same final_action, confidence_band, score01,
\* reasons and vetoes.
C14_ContextDoesNotDecide ==
  (BothDecided /\ SameButContext) =>
    /\ ret.first.final_action = ret.second.final_action
    /\ ret.first.confidence_band = ret.second.confidence_band
    /\ ret.first.score01 = ret.second.score01
    /\ ret.first.reasons = ret.second.reasons
    /\ ret.first.vetoes = ret.second.vetoes

\* two runs that differ in symbol, price, spread and levels, and so in the
\* message, and both decide BUY
C14_Witness ==
  /\ BothDecided
  /\ SameButContext
  /\ call.payload["symbol"] # call.other["symbol"]
  /\ call.payload["price"] # call.other["price"]
  /\ "spread_pips" \notin DOMAIN call.payload
  /\ Get(call.other, "spread_pips", JNull) = JNum("3.0")
  /\ ret.first.message # ret.second.message
  /\ ret.first.final_action = JStr("BUY")
  /\ ret.second.final_action = JStr("BUY")

\* the keys of tech and fund whose value in the payload of the call is not a
\* boolean (pattern_type is a string by design and no flag)
OddTechKeys ==
  {k \in (DOMAIN PayloadTech) \ {"pattern_type"} : PayloadTech[k] \notin BoolVals}

OddFundKeys == {k \in DOMAIN PayloadFund : PayloadFund[k] \notin BoolVals}

\* agent_policy.main has ended on a payload with all its required fields
Ended ==
  /\ call.fn = "agent_policy.main"
  /\ ret # Pending
  /\ call.valid_json
  /\ MissingFields(call.payload) = <<>>

\* C15: when a flag value in tech or fund is not a boolean, main ends with an
\* invalid-input error that names an offending key: it prints no decision
\* and does not end with any other error.
C15_InvalidInputNamed ==
  (Ended /\ OddTechKeys \cup OddFundKeys # {}) =>
    /\ ret.kind = "error"
    /\ ret.error = "invalid_input"
    /\ \E i \in 1..Len(ret.fields) : ret.fields[i] \in OddTechKeys \cup OddFundKeys

\* export_json_av.pre_action_from_flags has returned
AvVoted ==
  call.fn = "export_json_av.pre_action_from_flags" /\ ret.kind = "action"

\* C16: export_json_av.pre_action_from_flags counts as bearish votes only
\* bearish-classified flags that are true: SELL is returned only when at
\* least 3 bearish flags of the bundle are true and no bullish flag is true,
\* and a bundle with fewer than 3 true flags yields WAIT.
C16_OnlyTrueBearishFlagsVote ==
  AvVoted =>
    /\ ret.action = "SELL" =>
         /\ CountTrue(AvBearKeys, call.flags) >= 3
         /\ CountTrue(AvBullKeys, call.flags) = 0
    /\ CountValues(call.flags) < 3 => ret.action = "WAIT"

\* one of the scripts in fns has run and its output has not been enriched
ExportedBy(fns) == call.fn \in fns /\ ret.kind = "export" /\ ~ret.enriched

\* the one JSON object on stdout
Out == ret.stdout[1]

\* the dictionary under key k of the output, empty if there is none
FlagsOf(k) == IF k \in DOMAIN Out THEN Out[k] ELSE <<>>

\* C17: the exporters without a real news, calendar, spread or candle-timing
\* source (export_json_av, export_json_unified, export_stocks_av) emit the
\* veto-triggering fundamental flags no_red_news_1h, spread_ok and
\* not_mid_candle as false, never as true.
C17_VetoStubsAreFalse ==
  (/\ ExportedBy({"export_json_av", "export_json_unified", "export_stocks_av"})
   /\ Len(ret.stdout) = 1
   /\ "fundamental_flags" \in DOMAIN Out)
    => \A k \in VetoKeys : ~Out["fundamental_flags"][k]

\* C18: in every payload an exporter has produced, merged or not with the
\* output of news_sentiment.run, score16 is the number of true entries of
\* technical_flags and score6 the number of true entries of
\* fundamental_flags.
C18_ScoresCountFlags ==
  (ret.kind = "export" /\ Len(ret.stdout) = 1) =>
    /\ Out["score16"] = CountValues(FlagsOf("technical_flags"))
    /\ Out["score6"] = CountValues(FlagsOf("fundamental_flags"))

\* the API key is missing or the candle fetch has failed
FetchFailure == ~call.env.key \/ call.env.fetch # "ok"

\* C19: when the candle fetch fails or the API key is missing,
\* export_json_td, export_json_av and export_json_unified each print exactly
\* one JSON object, with action WAIT, score16 0, score6 0 and a non-empty
\* risk_notes entry naming the failure, and end without an uncaught
\* exception (export_json_td and export_json_av with exit status 1).
C19_FailureDegradesToWait ==
  (/\ ExportedBy({"export_json_td", "export_json_av", "export_json_unified"})
   /\ FetchFailure) =>
    /\ ~ret.traceback
    /\ Len(ret.stdout) = 1
    /\ {"action", "risk_notes"} \subseteq DOMAIN Out
    /\ Out["action"] = "WAIT"
    /\ Out["score16"] = 0
    /\ Out["score6"] = 0
    /\ Len(Out["risk_notes"]) = 1
    /\ Out["risk_notes"][1] # ""

\* Alpha Vantage returned no candles: export_json_av prints the fallback and
\* exits with status 1
C19_Witness ==
  /\ ExportedBy({"export_json_av"})
  /\ call.env.key
  /\ call.env.fetch = "empty"
  /\ Len(ret.stdout) = 1
  /\ Out["action"] = "WAIT"
  /\ Out["risk_notes"] =
       <<"Exporter error: No candles returned from Alpha Vantage.">>
  /\ ret.exit = 1
  /\ ~ret.traceback

\* C20: every run of export_json_unified.build_payload returns a payload
\* with exactly 16 technical flags, adx_gt_20 among them, and exactly 6
\* fundamental flags, whatever the data fetch gave.
C20_SixteenAndSix ==
  ExportedBy({"export_json_unified"}) =>
    /\ Len(ret.stdout) = 1
    /\ {"technical_flags", "fundamental_flags"} \subseteq DOMAIN Out
    /\ Cardinality(DOMAIN Out["technical_flags"]) = 16
    /\ "adx_gt_20" \in DOMAIN Out["technical_flags"]
    /\ Cardinality(DOMAIN Out["fundamental_flags"]) = 6


\* a call of one of fns has returned a value
Gave(fns) == call.fn \in fns /\ ret.kind = "return"

\* C21: for every pair string, Analyst.generate_signal returns (it does not
\* raise) a dict with the keys action, confidence, reason, score and levels,
\* and Analyst.analyze_24h returns a dict that has the key score with a value
\* in [0, 1], that is 0..100 hundredths.
C21_AnalystShape ==
  /\ call.fn \in {"Analyst.analyze_24h", "Analyst.generate_signal"}
     /\ ret # Pending => ret.kind = "return"
  /\ Gave({"Analyst.generate_signal"}) =>
       {"action", "confidence", "reason", "score", "levels"}
         \subseteq DOMAIN ret.value
  /\ Gave({"Analyst.analyze_24h"}) =>
       "score" \in DOMAIN ret.value /\ ret.value.score \in 0..100

\* the signal for the empty pair string: HOLD with the default levels
C21_Witness ==
  /\ Gave({"Analyst.generate_signal"})
  /\ call.pair = <<>>
  /\ ret.value.action = "HOLD"
  /\ ret.value.levels = DEFAULT_LEVELS


\* the provider gave no usable data: no attempt returned bars, or the frame
\* has no Close column or fewer than 2 bars, or one of the two closes the
\* change is computed from is zero or not a finite number
NoUsableData ==
  \/ \A k \in 1..HistoryTries : call.attempts[k] # "data"
  \/ ~call.df.has_close
  \/ Len(call.df.closes) < 2
  \/ LET last24 == Last24(call.df)
     IN  \E c \in {last24[1], last24[Len(last24)]} : c = Num(0) \/ ~isfinite(c)

\* C22: market_data_fetcher.analyze_24h always returns a dict with the keys
\* pair, score, bias, levels and reason, score in [0, 1] and bias one of
\* bullish, bearish, neutral; and when the provider gives no usable data (all
\* 3 attempts empty or failing, fewer than 2 bars, a zero or non-finite close)
\* the result is the neutral fallback, score 0.50 and bias neutral.
C22_NeutralFallback ==
  Gave({"market_data_fetcher.analyze_24h"}) =>
    /\ {"pair", "score", "bias", "levels", "reason"} \subseteq DOMAIN ret.value
    /\ ret.value.score \in 0..1000
    /\ ret.value.bias \in {"bullish", "bearish", "neutral"}
    /\ NoUsableData => ret.value.score = FallbackScore /\ ret.value.bias = "neutral"


\* the POSTs made so far by tg_send
TgAttempts ==
  IF ret = Pending THEN 0 ELSE ret.attempts

TgFailed(k) == call.posts[k].raised \/ call.posts[k].status_code # 200

\* at most `retries` POSTs; all but the last one made have failed; True is
\* returned on a POST answered 200, False after `retries` failed POSTs
TgSafe ==
  call.fn = "forex_event_scalper.tg_send" =>
    /\ TgAttempts <= call.retries
    /\ \A k \in 1..(TgAttempts - 1) : TgFailed(k)
    /\ ret.kind = "sending" => TgFailed(TgAttempts)
    /\ ret.kind = "return" /\ ret.value =>
         TgAttempts >= 1 /\ ~TgFailed(TgAttempts)
    /\ ret.kind = "return" /\ ~ret.value =>
         TgAttempts = call.retries /\ \A k \in 1..call.retries : TgFailed(k)

\* C23: tg_send makes at most `retries` POST attempts, returns True as soon
\* as one attempt answers HTTP 200 and makes no attempt after that, returns
\* False only after exactly `retries` attempts have all failed (non-200 status
\* or exception), and it always terminates.
C23_BoundedRetries ==
  /\ []TgSafe
  /\ [][call.fn = "forex_event_scalper.tg_send" /\ ret.kind = "return"
          => ret' = ret]_vars
  /\ (call.fn = "forex_event_scalper.tg_send" ~> ret.kind = "return")

\* True at the third of the four default attempts, after an exception and a
\* non-200 answer, with a 200 answer left unused behind it
C23_Witness ==
  /\ call.fn = "forex_event_scalper.tg_send"
  /\ call.retries = DefaultRetries
  /\ ret.kind = "return" /\ ret.value /\ ret.attempts = 3
  /\ call.posts[1] = Raised /\ call.posts[2] = Answer(502)
  /\ call.posts[4] = Answer(200)


\* C24: core.get_candles falls back to the yfinance fetch (_yf_get) whenever
\* the TwelveData helper is missing or failing (missing API key, HTTP error or
\* empty values list included), on the first call and on every later one.
C24_FallsBackToYfinance ==
  call.fn = "core.get_candles" /\ ret.kind = "candles" =>
    \A i \in 1..Len(ret.answers) :
      call.helper = "missing" \/ call.tds[i] # "ok" =>
        /\ InSeq("yfinance", ret.answers[i].fetched)
        /\ ret.answers[i].src \in {"YF", "NONE"}


Merged == Gave({"render_agent.veto_and_merge"})

AgentRisks == Get(call.agent, "risks", JList(<<>>)).items

\* score16 of the signal and confidence of the agent as the claim counts
\* them: 0 and 1 when missing or null
ClaimScore16 == coalesce(Get(call.signal, "score16", JNull), JNum("0"))

ClaimConfidence == coalesce(Get(call.agent, "confidence", JNull), JNum("1"))

\* C26: veto_and_merge forces final_action to WAIT whenever a risk of the
\* agent mentions 'stale' or 'no atr plan' in any case of letters, or when
\* score16 < 5 together with confidence <= 2 (a missing score16 is 0, a
\* missing confidence is 1), or when one of the two cannot be converted to an
\* integer (both are then taken as 0 and 1).
C26_HardVetoes ==
  Merged =>
    /\ (\E i \in 1..Len(AgentRisks) :
          \/ contains(lower(AgentRisks[i]), stale)
          \/ contains(lower(AgentRisks[i]), no_atr_plan))
       => ret.value.final_action = JStr("WAIT")
    /\ (~IntRaises(ClaimScore16) /\ ~IntRaises(ClaimConfidence)
        /\ IntOf(ClaimScore16) < 5 /\ IntOf(ClaimConfidence) <= 2)
       => ret.value.final_action = JStr("WAIT")
    /\ (IntRaises(ClaimScore16) \/ IntRaises(ClaimConfidence))
       => ret.value.final_action = JStr("WAIT")

\* the agent says BUY with confidence 3 on a score of 16 and lists a risk
\* written in capitals
C26_Witness ==
  /\ Merged
  /\ Get(call.agent, "final_action", JNull) = JStr("BUY")
  /\ Get(call.agent, "confidence", JNull) = JNum("3")
  /\ Get(call.signal, "score16", JNull) = JNum("16")
  /\ Len(AgentRisks) = 1
  /\ contains(AgentRisks[1], <<"N", "O", " ", "A", "T", "R", " ", "P", "L", "A", "N">>)
  /\ ret.value.final_action = JStr("WAIT")


\* C27: in core.analyze_once, whenever the extra flag 'S/R break down' is
\* true the action is WAIT: the downside break also sets 'S/R break (any)',
\* which is a bullish vote, so SELL is never returned on a downside break.
C27_DownBreakIsWait ==
  Analysed /\ InSeq("S/R break down", ret.why) =>
    /\ ret.flags16["S/R break (any)"]
    /\ ret.action = "WAIT"

\* a downside break with three more bearish votes and no other bullish flag
C27_Witness ==
  /\ Analysed
  /\ call.obs.sr_dn /\ ~call.obs.sr_up
  /\ InSeq("S/R break down", ret.why)
  /\ bear_votes(ret.flags16, ExtraFlags(call.obs)) >= 4
  /\ bull_votes(ret.flags16, ExtraFlags(call.obs)) = 1
  /\ ret.action = "WAIT"


Looping == call.fn = "telegram_bot.main_loop" /\ ret.kind = "loop"

\* C29: in telegram_bot.main_loop, over any sequence of polls (each
\* re-delivers the backlog, no offset being sent), an update is handled
\* exactly when its update_id is strictly greater than the largest update_id
\* handled so far; so no update_id is handled twice, and an update that comes
\* after one with a larger id is not handled.  Each step of the loop adds at
\* most one entry to the record of the updates gone through.
C29_HandledOnlyAboveLast ==
  /\ [](Looping =>
          \A j \in 1..Len(ret.log) :
            /\ ret.log[j].handled <=>
                 \A i \in 1..(j - 1) :
                   ret.log[i].handled => ret.log[i].update_id < ret.log[j].update_id
            /\ \A i \in 1..(j - 1) :
                 /\ ret.log[i].handled /\ ret.log[j].handled
                      => ret.log[i].update_id # ret.log[j].update_id
                 /\ ret.log[i].update_id > ret.log[j].update_id
                      => ~ret.log[j].handled)
  /\ [][Looping /\ Looping' =>
          \/ ret'.log = ret.log
          \/ /\ Len(ret'.log) = Len(ret.log) + 1
             /\ SubSeq(ret'.log, 1, Len(ret.log)) = ret.log]_vars

\* the second poll re-delivers a backlog that lists update 1 after update 2:
\* update 2 is handled once, update 1 never
C29_Witness ==
  /\ Looping
  /\ ret.polls = 2
  /\ Len(ret.log) = 4
  /\ ret.log[1] = [update_id |-> 2, handled |-> TRUE]
  /\ ret.log[2] = [update_id |-> 1, handled |-> FALSE]
  /\ ret.log[3] = [update_id |-> 2, handled |-> FALSE]
  /\ ret.log[4] = [update_id |-> 1, handled |-> FALSE]

====
